---- MODULE Spec2Model ----
(***************************************************************************)
(* Lyrical-complexity pipeline: the LyricsTransformer of                   *)
(* scripts/transform_lyrics.py, the metrics and the extraction script of   *)
(* scripts/extract_lyrics.py, the loader of scripts/load_to_postgres.py    *)
(* and the DAG of airflow/lyrics_complexity_dag.py as state machines.      *)
(*                                                                         *)
(* A table cell holding a number is Num(n); a cell holding text that is    *)
(* not a number is Text; an empty cell (pandas NaN) is NaN.                *)
(* flesch_kincaid_score, unique_words and total_words are counted in whole *)
(* units, lexical_diversity in thousandths.  Every statistic rounded to 3  *)
(* decimals by the code is held in thousandths, every value rounded to 2   *)
(* decimals in hundredths.                                                 *)
(***************************************************************************)
EXTENDS Integers, Sequences, FiniteSets, TLC

VARIABLES input_file, data, yearly_stats, decade_stats, transformed_file,
          insights, last, raised,
          lyrics, metrics,
          genius_token, genius, results, data_dir, returncode,
          task_state, try_number, log, tables,
          calls, connection, picked, tables_before

\* The LyricsTransformer object, its input and what its last call did.
transformer == <<input_file, data, yearly_stats, decade_stats,
                 transformed_file, insights, last, raised>>

\* The argument and the result of calculate_complexity_metrics.
calculator == <<lyrics, metrics>>

\* The extraction script: the API token of its environment, the answers the
\* lyrics provider has given it, the song records it has gathered and its
\* exit status (None while it runs).
extractor == <<genius_token, genius, results, returncode>>

\* The files of ../data, oldest first by modification time (None: the
\* directory is not there).
disk == <<data_dir>>

\* The DAG run: the state of each task and the tries it has had.
scheduler == <<task_state, try_number>>

\* The last message each script or task has logged.
logs == <<log>>

\* The tables of the database (None: the table is not there), and the
\* last run of load_to_postgres.py: the files it picked (None before it
\* constructs its loader), the methods it called on the loader,
\* self.connection at its end and the tables as it found them.
database == <<tables, calls, connection, picked, tables_before>>

vars == <<transformer, calculator, extractor, disk, scheduler, logs, database>>

task_ids == <<"extract_lyrics", "transform_lyrics", "load_to_postgres",
              "data_quality_check", "generate_summary_report",
              "cleanup_temp_files">>

\* The tasks by their place in the chain.
Extract == 1
Transform == 2
Load == 3
QualityCheck == 4
Report == 5
Cleanup == 6

Tasks == 1..Len(task_ids)

table_names == {"lyrics_complexity", "yearly_complexity_stats",
                "decade_complexity_stats"}

\* Longest input file (rows) the model reads.
MaxRecords == 3

\* An optional value: None, or Some(x) whose content is Get(o).
None == <<>>
Some(x) == <<x>>
Get(o) == o[1]

\* No DAG run, nothing logged, an empty database.
NothingScheduled ==
    /\ task_state = [t \in Tasks |-> "none"]
    /\ try_number = [t \in Tasks |-> 0]
    /\ log = [t \in Tasks |-> ""]
    /\ tables = [n \in table_names |-> None]
    /\ calls = <<>>
    /\ connection = "none"
    /\ picked = None
    /\ tables_before = [n \in table_names |-> None]

\* The input path when no file is there.
NoFile == None

Num(n) == [kind |-> "num", v |-> n]
Text == [kind |-> "text", v |-> 0]
NaN == [kind |-> "nan", v |-> 0]

numeric_columns == <<"unique_words", "total_words", "avg_sentence_length",
                     "flesch_kincaid_score", "lexical_diversity">>

(***************************************************************************)
(* Input rows.                                                             *)
(***************************************************************************)
Row(year, rank, lf, uw, tw, asl, fk, ld) ==
    [year |-> year, rank |-> rank, lyrics_found |-> lf,
     unique_words |-> uw, total_words |-> tw, avg_sentence_length |-> asl,
     flesch_kincaid_score |-> fk, lexical_diversity |-> ld]

\* The row a found song with ordinary metrics has.
BaseRow == Row(2020, 1, "True", Num(10), Num(20), Num(5), Num(50), Num(500))

WithField(r, f, c) == [r EXCEPT ![f] = c]

WithScore(r, c) == WithField(r, "flesch_kincaid_score", c)

\* Rows for the cleaning stage: each lyrics_found value, scores on and beyond
\* the outlier bounds, metrics that are text or empty.
PoolClean ==
    {WithField(BaseRow, "lyrics_found", lf) : lf \in {"True", "False", "NaN"}}
    \cup {WithScore(BaseRow, c) : c \in {Num(-60), Num(-50), Num(100), Text}}
    \cup {WithScore(WithField(BaseRow, "unique_words", Text), Num(150)),
          WithField(WithField(BaseRow, "unique_words", Text),
                    "avg_sentence_length", Text),
          WithField(WithField(BaseRow, "total_words", Text),
                    "lexical_diversity", NaN)}

\* Rows for the categorizer: scores and ranks on and around the bin edges.
PoolCat ==
    {WithField(WithScore(BaseRow, Num(p[1])), "rank", p[2]) :
        p \in {<<30, -1>>, <<31, 0>>, <<60, 1>>, <<61, 10>>, <<80, 25>>,
               <<81, 26>>, <<-50, 50>>, <<100, 51>>, <<50, 100>>, <<50, 101>>}}

\* Rows for the aggregator: three years in two decades, with a gap.
PoolAgg ==
    {Row(y, 1, "True", Num(10), Num(20), Num(5), Num(s), Num(500)) :
        y \in {2018, 2019}, s \in {50, 55}}
    \cup {Row(y, 60, "True", Num(12), Num(22), Num(5), Num(52), Num(333)) :
        y \in {2018, 2019, 2021}}
    \cup {Row(2021, 1, "True", Num(10), Num(20), Num(5), Num(50), Num(500))}

\* Rows for the insights: equal and missing values in the ranked columns,
\* years on both sides of the boundary.
PoolIns ==
    {Row(2020, 1, "True", Num(10), Num(20), Num(5), Num(s), ld) :
        s \in {40, 70}, ld \in {Num(300), Num(600), NaN}}
    \cup {Row(2019, 30, "True", Num(uw), Num(20), Num(5), Num(40), Num(300)) :
        uw \in {10, 20}}

\* Rows for the aggregates over missing values: counts and diversities that
\* are numbers, empty or text, in a year of the 2010s and one of the 2020s.
PoolMissing ==
    {Row(y, 1, "True", uw, Num(20), Num(5), Num(50), ld) :
        y \in {2019, 2021}, uw \in {Num(30), Text}, ld \in {Num(500), NaN}}
    \cup {Row(2019, 2, "True", NaN, NaN, Num(5), Num(60), Num(250))}

\* The title column names each row of the file by its position.
Title(i) == "song" \o ToString(i)

WithTitles(f) == [i \in 1..Len(f) |-> [title |-> Title(i)] @@ f[i]]

Files(pool) ==
    {WithTitles(f) : f \in UNION {[1..n -> pool] : n \in 0..MaxRecords}}

(***************************************************************************)
(* Arithmetic on exact values.                                             *)
(***************************************************************************)
\* a / b rounded to the nearest integer, ties to the even one (b > 0).
RoundDiv(a, b) ==
    LET q == a \div b
        r == a - q * b
    IN  IF 2 * r < b THEN q
        ELSE IF 2 * r > b THEN q + 1
        ELSE IF q % 2 = 0 THEN q ELSE q + 1

RECURSIVE SumSeq(_)
SumSeq(s) == IF s = <<>> THEN 0 ELSE Head(s) + SumSeq(Tail(s))

RECURSIVE SumSqDev(_, _, _)
\* Sum over s of (n * x - total)^2.
SumSqDev(s, n, total) ==
    IF s = <<>> THEN 0
    ELSE (n * Head(s) - total) * (n * Head(s) - total) + SumSqDev(Tail(s), n, total)

RECURSIVE IsqrtBetween(_, _, _)
\* The p in lo..hi-1 with p * p <= x < (p + 1) * (p + 1), given that
\* lo * lo <= x < hi * hi.
IsqrtBetween(x, lo, hi) ==
    IF hi - lo <= 1 THEN lo
    ELSE LET mid == (lo + hi) \div 2
         IN  IF mid <= x \div mid
             THEN IsqrtBetween(x, mid, hi)
             ELSE IsqrtBetween(x, lo, mid)

\* The integer square root of x >= 0.
Isqrt(x) == IsqrtBetween(x, 0, x + 1)

RECURSIVE SqrtDigits(_, _, _, _, _)
\* Long-hand square root of a rational: p is the root so far, r the remainder
\* of the radicand's digits taken so far, rem the remainder of the division
\* by q that yields the radicand's next two digits; j digits are still to come.
SqrtDigits(p, r, rem, q, j) ==
    IF j = 0 THEN [p |-> p, r |-> r, rem |-> rem]
    ELSE LET pair == (rem * 100) \div q
             c == 100 * r + pair
             d == CHOOSE x \in 0..9 :
                     /\ (20 * p + x) * x <= c
                     /\ (x = 9 \/ (20 * p + x + 1) * (x + 1) > c)
         IN  SqrtDigits(10 * p + d, c - (20 * p + d) * d, (rem * 100) % q, q, j - 1)

\* sqrt(num / den) * 10^digits rounded to the nearest integer, ties to even.
RoundSqrt(num, den, digits) ==
    LET p0 == Isqrt(num \div den)
        f == SqrtDigits(p0, (num \div den) - p0 * p0, num % den, den, digits)
    IN  IF f.r > f.p \/ (f.r = f.p /\ 4 * f.rem > den) THEN f.p + 1
        ELSE IF f.r = f.p /\ 4 * f.rem = den /\ f.p % 2 = 1 THEN f.p + 1
        ELSE f.p

(***************************************************************************)
(* The transformer object: self.data is None or a frame                    *)
(* [rows, year_dtype, categorized]; raised names the exception a call      *)
(* ended with ("" when it returned).                                       *)
(***************************************************************************)
Self(d, ys, ds, tf, exc) ==
    [data |-> d, yearly_stats |-> ys, decade_stats |-> ds,
     transformed_file |-> tf, raised |-> exc]

Raise(s, exc) == [s EXCEPT !.raised = exc]

\* pd.read_csv: the rows of the file under a fresh 0-based index.
read_csv(f) ==
    [rows |-> [i \in 1..Len(f) |-> [idx |-> i - 1] @@ f[i]],
     year_dtype |-> "int64",
     categorized |-> FALSE]

load_data(s, file) ==
    IF file = NoFile THEN Raise(s, "FileNotFoundError")
    ELSE [s EXCEPT !.data = Some(read_csv(Get(file)))]

to_datetime_end_of_year(y, dtype) ==
    IF dtype = "datetime64" THEN y ELSE <<y, 12, 31>>

\* pd.to_datetime(year, format='%Y'): the first day of that year.
to_datetime(y, dtype) == IF dtype = "datetime64" THEN y ELSE <<y, 1, 1>>

dt_year(ts) == ts[1]

\* pd.to_numeric(errors='coerce')
to_numeric_or_zero(c) == IF c.kind = "num" THEN c ELSE Num(0)

to_numeric(c) == IF c.kind = "num" THEN c ELSE NaN

betweenStrict(c, lo, hi) == c.kind = "num" /\ lo < c.v /\ c.v < hi

\* Series.between(lo, hi): both ends included, NaN is outside.
between(c, lo, hi) == c.kind = "num" /\ lo <= c.v /\ c.v <= hi

notna_lyrics_found(r) == r.lyrics_found # "NaN"

lyrics_found_is_true(r) == r.lyrics_found = "True"

CoerceRow(r, dtype) ==
    [r EXCEPT !.year = to_datetime(r.year, dtype),
              !.unique_words = to_numeric(r.unique_words),
              !.total_words = to_numeric(r.total_words),
              !.avg_sentence_length = to_numeric(r.avg_sentence_length),
              !.flesch_kincaid_score = to_numeric(r.flesch_kincaid_score),
              !.lexical_diversity = to_numeric(r.lexical_diversity)]

score_in_range(r) == between(r.flesch_kincaid_score, -50, 100)

CleanRowsKeepAll(rows, dtype) ==
    LET coerced == [i \in 1..Len(rows) |-> CoerceRow(rows[i], dtype)]
    IN  SelectSeq(coerced, score_in_range)

CleanRows(rows, dtype) ==
    LET notna == SelectSeq(rows, notna_lyrics_found)
        found == SelectSeq(notna, lyrics_found_is_true)
        coerced == [i \in 1..Len(found) |-> CoerceRow(found[i], dtype)]
    IN  SelectSeq(coerced, score_in_range)

clean_data(s0, file) ==
    LET s == IF s0.data = None THEN load_data(s0, file) ELSE s0
    IN  IF s.raised # "" THEN s
        ELSE LET df == Get(s.data)
             IN  [s EXCEPT !.data = Some([rows |-> CleanRows(df.rows, df.year_dtype),
                                          year_dtype |-> "datetime64",
                                          categorized |-> df.categorized])]

(***************************************************************************)
(* Aggregation: groupby(...).agg(...).round(3), diff, pd.cut.              *)
(***************************************************************************)
RECURSIVE SortedSeq(_)
\* The elements of a set of integers in ascending order (groupby sorts keys).
SortedSeq(S) ==
    IF S = {} THEN <<>>
    ELSE LET m == CHOOSE x \in S : \A y \in S : x <= y
         IN  <<m>> \o SortedSeq(S \ {m})

SeqToSet(s) == {s[i] : i \in 1..Len(s)}

num_vals_zero_filled(rows, col) ==
    [i \in 1..Len(rows) |-> IF rows[i][col].kind = "num" THEN rows[i][col].v ELSE 0]

\* The values of a column that are present (aggregations skip NaN).
NumVals(rows, col) ==
    LET sel == SelectSeq(rows, LAMBDA r : r[col].kind = "num")
    IN  [i \in 1..Len(sel) |-> sel[i][col].v]

\* Thousandths per unit of a column, and the decimal digits that adds.
Unit(col) == IF col = "lexical_diversity" THEN 1 ELSE 1000

Digits(col) == IF col = "lexical_diversity" THEN 0 ELSE 3

\* mean().round(3)
mean3(vals, col) ==
    IF vals = <<>> THEN NaN
    ELSE Num(RoundDiv(SumSeq(vals) * Unit(col), Len(vals)))

\* Standard deviation with divisor n - ddof, rounded to 3 decimals.
std(vals, ddof, col) ==
    LET n == Len(vals)
    IN  IF n - ddof <= 0 THEN NaN
        ELSE Num(RoundSqrt(SumSqDev(vals, n, SumSeq(vals)), n * n * (n - ddof),
                           Digits(col)))

population_std3(vals, col) == std(vals, 0, col)

\* std().round(3): pandas' default ddof = 1.
std3(vals, col) == std(vals, 1, col)

\* median().round(3)
median3(vals, col) ==
    LET n == Len(vals)
        sorted == SortSeq(vals, LAMBDA a, b : a < b)
    IN  IF n = 0 THEN NaN
        ELSE IF n % 2 = 1 THEN Num(sorted[(n + 1) \div 2] * Unit(col))
        ELSE Num(RoundDiv((sorted[n \div 2] + sorted[n \div 2 + 1]) * Unit(col), 2))

\* Difference of two cells; NaN when either is.
Minus(a, b) == IF a.kind = "num" /\ b.kind = "num" THEN Num(a.v - b.v) ELSE NaN

YearGroup(rows, y) == SelectSeq(rows, LAMBDA r : dt_year(r.year) = y)

YearRow(rows, y) ==
    LET g == YearGroup(rows, y)
        fk == NumVals(g, "flesch_kincaid_score")
        ld == NumVals(g, "lexical_diversity")
        uw == NumVals(g, "unique_words")
        tw == NumVals(g, "total_words")
    IN  [year |-> y,
         flesch_kincaid_score_mean |-> mean3(fk, "flesch_kincaid_score"),
         flesch_kincaid_score_std |-> std3(fk, "flesch_kincaid_score"),
         flesch_kincaid_score_median |-> median3(fk, "flesch_kincaid_score"),
         lexical_diversity_mean |-> mean3(ld, "lexical_diversity"),
         lexical_diversity_std |-> std3(ld, "lexical_diversity"),
         lexical_diversity_median |-> median3(ld, "lexical_diversity"),
         unique_words_mean |-> mean3(uw, "unique_words"),
         unique_words_std |-> std3(uw, "unique_words"),
         unique_words_median |-> median3(uw, "unique_words"),
         total_words_mean |-> mean3(tw, "total_words"),
         total_words_std |-> std3(tw, "total_words"),
         total_words_median |-> median3(tw, "total_words")]

diff_from_first(means, i) == IF i = 1 THEN NaN ELSE Minus(means[i], means[1])

\* Series.diff(): each element minus the one before it; the first is NaN.
diff(means, i) == IF i = 1 THEN NaN ELSE Minus(means[i], means[i - 1])

\* The group keys of groupby(year): the distinct years, ascending.
YearKeys(rows) == SortedSeq({dt_year(rows[i].year) : i \in 1..Len(rows)})

YearlyStats(rows) ==
    LET ys == YearKeys(rows)
        base == [i \in 1..Len(ys) |-> YearRow(rows, ys[i])]
        means == [i \in 1..Len(ys) |-> base[i].flesch_kincaid_score_mean]
    IN  [i \in 1..Len(ys) |-> [complexity_trend |-> diff(means, i)] @@ base[i]]

\* year // 10 * 10
decade_of(y) == (y \div 10) * 10

DecadeGroup(rows, d) == SelectSeq(rows, LAMBDA r : decade_of(dt_year(r.year)) = d)

mean_of_yearly_means(rows, d, col) ==
    LET g == DecadeGroup(rows, d)
        ys == YearKeys(g)
        ms == [i \in 1..Len(ys) |-> mean3(NumVals(YearGroup(g, ys[i]), col), col)]
        present == SelectSeq(ms, LAMBDA c : c.kind = "num")
    IN  IF present = <<>> THEN NaN
        ELSE Num(RoundDiv(SumSeq([i \in 1..Len(present) |-> present[i].v]),
                          Len(present)))

\* The mean of a column over all rows of a decade.
decade_mean(rows, d, col) == mean3(NumVals(DecadeGroup(rows, d), col), col)

DecadeRow(rows, d) ==
    [decade |-> d,
     flesch_kincaid_score |-> decade_mean(rows, d, "flesch_kincaid_score"),
     lexical_diversity |-> decade_mean(rows, d, "lexical_diversity"),
     unique_words |-> decade_mean(rows, d, "unique_words")]

DecadeStats(rows) ==
    LET ds == SortedSeq({decade_of(dt_year(rows[i].year)) : i \in 1..Len(rows)})
    IN  [i \in 1..Len(ds) |-> DecadeRow(rows, ds[i])]

(***************************************************************************)
(* Categories: pd.cut over ordered bin edges.                              *)
(***************************************************************************)
NegInf == [kind |-> "-inf", v |-> 0]
PosInf == [kind |-> "inf", v |-> 0]

EdgeLt(e, x) == e.kind = "-inf" \/ (e.kind = "num" /\ e.v < x)
EdgeLe(e, x) == e.kind = "-inf" \/ (e.kind = "num" /\ e.v <= x)
LtEdge(x, e) == e.kind = "inf" \/ (e.kind = "num" /\ x < e.v)
LeEdge(x, e) == e.kind = "inf" \/ (e.kind = "num" /\ x <= e.v)

complexity_bins == <<NegInf, Num(30), Num(60), Num(80), PosInf>>
complexity_labels == <<"Very Complex", "Complex", "Moderate", "Simple">>

rank_bins == <<Num(0), Num(10), Num(25), Num(50), Num(100)>>
rank_labels == <<"Top 10", "Top 25", "Top 50", "Top 100">>

NoCategory == "NaN"

cut_left_closed(c, bins, labels) ==
    LET hits == {i \in 1..Len(labels) :
                    c.kind = "num" /\ EdgeLe(bins[i], c.v) /\ LtEdge(c.v, bins[i + 1])}
    IN  IF hits = {} THEN NoCategory ELSE labels[CHOOSE i \in hits : TRUE]

\* pd.cut(x, bins, labels) with right=True: bin i is (bins[i], bins[i+1]];
\* a value in no bin, or NaN, gets no category.
cut(c, bins, labels) ==
    LET hits == {i \in 1..Len(labels) :
                    c.kind = "num" /\ EdgeLt(bins[i], c.v) /\ LeEdge(c.v, bins[i + 1])}
    IN  IF hits = {} THEN NoCategory ELSE labels[CHOOSE i \in hits : TRUE]

complexity_category_of(c) == cut(c, complexity_bins, complexity_labels)

rank_category_clamped(k) ==
    cut(Num(IF k < 1 THEN 1 ELSE IF k > 100 THEN 100 ELSE k), rank_bins, rank_labels)

rank_category_of(k) == cut(Num(k), rank_bins, rank_labels)

categorize_first_call_only(r) ==
    IF "rank_category" \in DOMAIN r
    THEN [r EXCEPT !.rank_category = NoCategory]
    ELSE [complexity_category |-> complexity_category_of(r.flesch_kincaid_score),
          rank_category |-> rank_category_of(r.rank)] @@ r

Categorize(r) ==
    [complexity_category |-> complexity_category_of(r.flesch_kincaid_score),
     rank_category |-> rank_category_of(r.rank)] @@ r

(***************************************************************************)
(* save_transformed_data: DataFrame.to_csv(index=False).                   *)
(***************************************************************************)
Pad2(n) == IF n < 10 THEN "0" \o ToString(n) ELSE ToString(n)

\* A timestamp as to_csv writes it.
DateStr(ts) == ToString(ts[1]) \o "-" \o Pad2(ts[2]) \o "-" \o Pad2(ts[3])

CsvRow(r, dtype) ==
    [f \in DOMAIN r \ {"idx"} |->
        IF f = "year" /\ dtype = "datetime64" THEN DateStr(r.year) ELSE r[f]]

to_csv(frame) ==
    [i \in 1..Len(frame.rows) |-> CsvRow(frame.rows[i], frame.year_dtype)]

calculate_additional_metrics(s0, file) ==
    LET s == IF s0.data = None THEN clean_data(s0, file) ELSE s0
    IN  IF s.raised # "" THEN s
        ELSE IF Get(s.data).year_dtype # "datetime64" THEN Raise(s, "AttributeError")
        ELSE LET rows == Get(s.data).rows
                 frame == [rows |-> [i \in 1..Len(rows) |-> Categorize(rows[i])],
                           year_dtype |-> Get(s.data).year_dtype,
                           categorized |-> TRUE]
             IN  [s EXCEPT !.data = Some(frame),
                           !.yearly_stats = Some(YearlyStats(rows)),
                           !.decade_stats = Some(DecadeStats(rows)),
                           !.transformed_file = Some(to_csv(frame))]

(***************************************************************************)
(* generate_insights                                                       *)
(***************************************************************************)
\* Years from this one on are "recent".
RecentBoundary == 2020

\* round(x, 2) of sum / n, in hundredths.
round2(sum, n) == RoundDiv(sum * 100, n)

\* mean().round(2) of the values present.
mean2(vals) == IF vals = <<>> THEN NaN ELSE Num(round2(SumSeq(vals), Len(vals)))

complexity_trend_of(recent, older) ==
    LET r == NumVals(recent, "flesch_kincaid_score")
        o == NumVals(older, "flesch_kincaid_score")
        known == r # <<>> /\ o # <<>>
        \* recent_avg - older_avg as a fraction over Len(r) * Len(o)
        change == SumSeq(r) * Len(o) - SumSeq(o) * Len(r)
    IN  [recent_average |-> mean2(r),
         older_average |-> mean2(o),
         change |-> IF known THEN Num(round2(change, Len(r) * Len(o))) ELSE NaN,
         trend |-> IF known /\ change > 0 THEN "Simpler" ELSE "More Complex"]

min_replaces_on_tie(new, best) == new <= best

\* idxmin keeps the first of equal values: a later value replaces the best
\* one only when it is smaller.
min_replaces(new, best) == new < best

\* idxmax, likewise: only a larger value replaces the best one.
max_replaces(new, best) == new > best

RECURSIVE ScanMin(_, _, _, _)
\* The position of the minimum of a column among rows i.., given the best
\* position so far (0: none); NaN is skipped.
ScanMin(rows, col, i, best) ==
    IF i > Len(rows) THEN best
    ELSE IF /\ rows[i][col].kind = "num"
            /\ (best = 0 \/ min_replaces(rows[i][col].v, rows[best][col].v))
         THEN ScanMin(rows, col, i + 1, i)
         ELSE ScanMin(rows, col, i + 1, best)

RECURSIVE ScanMax(_, _, _, _)
ScanMax(rows, col, i, best) ==
    IF i > Len(rows) THEN best
    ELSE IF /\ rows[i][col].kind = "num"
            /\ (best = 0 \/ max_replaces(rows[i][col].v, rows[best][col].v))
         THEN ScanMax(rows, col, i + 1, i)
         ELSE ScanMax(rows, col, i + 1, best)

\* Series.idxmin() / idxmax(): the index label of the extreme row; "nan" when
\* every value is missing.
idxmin(rows, col) ==
    LET p == ScanMin(rows, col, 1, 0) IN IF p = 0 THEN "nan" ELSE rows[p].idx

idxmax(rows, col) ==
    LET p == ScanMax(rows, col, 1, 0) IN IF p = 0 THEN "nan" ELSE rows[p].idx

\* data.loc[label, 'title']
loc_title(rows, label) ==
    LET p == CHOOSE i \in 1..Len(rows) : rows[i].idx = label IN rows[p].title

top_metrics_of(rows) ==
    [most_complex_song |-> loc_title(rows, idxmin(rows, "flesch_kincaid_score")),
     least_complex_song |-> loc_title(rows, idxmax(rows, "flesch_kincaid_score")),
     highest_lexical_diversity |-> loc_title(rows, idxmax(rows, "lexical_diversity")),
     most_unique_words |-> loc_title(rows, idxmax(rows, "unique_words"))]

rank_complexity_with_unassigned(rows) ==
    [l \in SeqToSet(rank_labels) |->
        mean2(NumVals(SelectSeq(rows, LAMBDA r :
                          \/ r.rank_category = l
                          \/ (l = "Top 100" /\ r.rank_category = NoCategory)),
                      "flesch_kincaid_score"))]

\* groupby('rank_category') over the categorical column: one entry per
\* category, NaN for a category no row has.
rank_complexity_of(rows) ==
    [l \in SeqToSet(rank_labels) |->
        mean2(NumVals(SelectSeq(rows, LAMBDA r : r.rank_category = l),
                      "flesch_kincaid_score"))]

yearly_complexity_of(rows) ==
    [y \in SeqToSet(YearKeys(rows)) |->
        mean2(NumVals(YearGroup(rows, y), "flesch_kincaid_score"))]

years_covered_of(rows) ==
    LET ys == YearKeys(rows)
    IN  IF ys = <<>> THEN "nan-nan"
        ELSE ToString(ys[1]) \o "-" \o ToString(ys[Len(ys)])

\* The exception lines 166-169 end with, "" when all four look-ups succeed.
TopMetricsError(rows) ==
    IF rows = <<>> THEN "ValueError"
    ELSE IF \E col \in {"flesch_kincaid_score", "lexical_diversity", "unique_words"} :
                NumVals(rows, col) = <<>>
         THEN "KeyError"
         ELSE ""

Insights(rows) ==
    LET recent_years == SelectSeq(rows, LAMBDA r : dt_year(r.year) >= RecentBoundary)
        older_years == SelectSeq(rows, LAMBDA r : dt_year(r.year) < RecentBoundary)
    IN  [total_songs_analyzed |-> Len(rows),
         years_covered |-> years_covered_of(rows),
         complexity_trend |->
            IF Len(recent_years) > 0 /\ Len(older_years) > 0
            THEN Some(complexity_trend_of(recent_years, older_years))
            ELSE None,
         top_metrics |-> top_metrics_of(rows),
         rank_complexity |-> rank_complexity_of(rows),
         yearly_complexity |-> yearly_complexity_of(rows)]

\* The state the call leaves and the dict it returns (None when it raises).
generate_insights(s0, file) ==
    LET s == IF s0.data = None THEN calculate_additional_metrics(s0, file) ELSE s0
        exc == IF s.raised # "" THEN s.raised
               ELSE IF Get(s.data).year_dtype # "datetime64" THEN "AttributeError"
               ELSE IF TopMetricsError(Get(s.data).rows) # ""
                    THEN TopMetricsError(Get(s.data).rows)
               ELSE IF ~Get(s.data).categorized THEN "KeyError"
               ELSE ""
    IN  [self |-> Raise(s, exc),
         insights |-> IF exc = "" THEN Some(Insights(Get(s.data).rows)) ELSE None]

(***************************************************************************)
(* The state machine: one action per public method of LyricsTransformer.   *)
(***************************************************************************)
Methods == {"load_data", "clean_data", "calculate_additional_metrics",
            "generate_insights"}

InitWith(pool) ==
    /\ input_file \in {NoFile} \cup {Some(f) : f \in Files(pool)}
    /\ data = None
    /\ yearly_stats = None
    /\ decade_stats = None
    /\ transformed_file = None
    /\ insights = None
    /\ last = "__init__"
    /\ raised = ""
    /\ lyrics = None
    /\ metrics = None
    /\ genius_token = None
    /\ genius = <<>>
    /\ results = <<>>
    /\ data_dir = None
    /\ returncode = None
    /\ NothingScheduled

\* The object as a call finds it.
Current == Self(data, yearly_stats, decade_stats, transformed_file, "")

Becomes(s, m) ==
    /\ data' = s.data
    /\ yearly_stats' = s.yearly_stats
    /\ decade_stats' = s.decade_stats
    /\ transformed_file' = s.transformed_file
    /\ raised' = s.raised
    /\ last' = m
    /\ UNCHANGED <<input_file, calculator, extractor, disk, scheduler, logs,
                   database>>

LoadData ==
    /\ Becomes(load_data(Current, input_file), "load_data")
    /\ UNCHANGED insights

CleanData ==
    /\ Becomes(clean_data(Current, input_file), "clean_data")
    /\ UNCHANGED insights

CalculateAdditionalMetrics ==
    /\ Becomes(calculate_additional_metrics(Current, input_file),
               "calculate_additional_metrics")
    /\ UNCHANGED insights

GenerateInsights ==
    LET res == generate_insights(Current, input_file)
    IN  /\ Becomes(res.self, "generate_insights")
        /\ insights' = res.insights

Next == LoadData \/ CleanData \/ CalculateAdditionalMetrics \/ GenerateInsights

\* The cleaning stage's inputs.
Init == InitWith(PoolClean)
Spec == Init /\ [][Next]_vars

\* The categorizer's inputs.
InitCat == InitWith(PoolCat)
SpecCat == InitCat /\ [][Next]_vars

\* The aggregator's inputs.
InitAgg == InitWith(PoolAgg)
SpecAgg == InitAgg /\ [][Next]_vars

\* The insight extractor's inputs.
InitIns == InitWith(PoolIns)
SpecIns == InitIns /\ [][Next]_vars

\* Inputs with missing metric values.
InitMissing == InitWith(PoolMissing)
SpecMissing == InitMissing /\ [][Next]_vars

(***************************************************************************)
(* What the properties below read.                                         *)
(***************************************************************************)
Loaded == data # None
Rows == Get(data).rows
Cleaned == Loaded /\ Get(data).year_dtype = "datetime64"
Categorized == Loaded /\ Get(data).categorized

FileRows == Get(input_file)
FileLen == IF input_file = NoFile THEN 0 ELSE Len(FileRows)

Found(r) == r.lyrics_found = "True"
Parsable(c) == c.kind = "num"
ScoreInRange(r) ==
    /\ Parsable(r.flesch_kincaid_score)
    /\ r.flesch_kincaid_score.v >= -50
    /\ r.flesch_kincaid_score.v <= 100

\* Row j of the file is a row of self.data (its index label is j - 1).
Survives(j) == \E i \in 1..Len(Rows) : Rows[i].idx = j - 1
Survivor(j) == Rows[CHOOSE i \in 1..Len(Rows) : Rows[i].idx = j - 1]

(***************************************************************************)
(* C1: after clean_data every surviving record has its                     *)
(* flesch_kincaid_score inside the closed range [-50, 100]; scores below   *)
(* -50 or above 100 are removed, scores of exactly -50 or 100 are kept.    *)
(***************************************************************************)
C1_OutlierLaw ==
    Cleaned =>
        /\ \A i \in 1..Len(Rows) : ScoreInRange(Rows[i])
        /\ \A j \in 1..FileLen :
              (Found(FileRows[j]) /\ ScoreInRange(FileRows[j])) => Survives(j)

C1_Witness ==
    /\ Cleaned
    /\ \E j \in 1..FileLen :
          FileRows[j].flesch_kincaid_score = Num(-50) /\ Survives(j)
    /\ \E j \in 1..FileLen :
          FileRows[j].flesch_kincaid_score = Num(100) /\ Survives(j)
    /\ \E j \in 1..FileLen :
          /\ FileRows[j].flesch_kincaid_score \in {Num(-60), Num(150)}
          /\ ~Survives(j)

(***************************************************************************)
(* C2: clean_data drops every record whose lyrics_found is false or        *)
(* missing, the survivors keep their input order, and the insights count   *)
(* only records that survive cleaning.                                     *)
(***************************************************************************)
C2_DropsNotFound ==
    /\ Cleaned =>
          /\ \A i \in 1..Len(Rows) : Found(Rows[i])
          /\ \A a, b \in 1..Len(Rows) : a < b => Rows[a].idx < Rows[b].idx
    /\ insights # None =>
          Get(insights).total_songs_analyzed =
              Cardinality({j \in 1..FileLen :
                              Found(FileRows[j]) /\ ScoreInRange(FileRows[j])})

C2_Witness ==
    /\ Cleaned
    /\ insights # None
    /\ Len(Rows) >= 2
    /\ \E j \in 1..FileLen : FileRows[j].lyrics_found \in {"False", "NaN"}

(***************************************************************************)
(* C3 as stated: a lyrics-found record with an unparsable value in any of  *)
(* the five numeric fields is still in the output of clean_data with that  *)
(* field missing, unless its flesch_kincaid_score is a number outside      *)
(* [-50, 100].                                                             *)
(***************************************************************************)
C3_Original ==
    Cleaned =>
        \A j \in 1..FileLen :
            \A k \in 1..Len(numeric_columns) :
                LET f == numeric_columns[k]
                    r == FileRows[j]
                IN  (/\ Found(r)
                     /\ ~Parsable(r[f])
                     /\ ~(Parsable(r.flesch_kincaid_score) /\ ~ScoreInRange(r)))
                    => (Survives(j) /\ Survivor(j)[f] = NaN)

(***************************************************************************)
(* C3 as amended: for the four numeric fields other than                   *)
(* flesch_kincaid_score, a lyrics-found record with an unparsable value in *)
(* the field and a score inside [-50, 100] is in the output with the field *)
(* missing; a lyrics-found record whose flesch_kincaid_score is not a      *)
(* number inside [-50, 100], unparsable scores included, is dropped.       *)
(***************************************************************************)
C3_Amended ==
    Cleaned =>
        \A j \in 1..FileLen :
            LET r == FileRows[j]
            IN  /\ \A f \in {"unique_words", "total_words", "avg_sentence_length",
                             "lexical_diversity"} :
                      (Found(r) /\ ~Parsable(r[f]) /\ ScoreInRange(r))
                      => (Survives(j) /\ Survivor(j)[f] = NaN)
                /\ (Found(r) /\ ~ScoreInRange(r)) => ~Survives(j)

C3_Witness ==
    /\ Cleaned
    /\ \E i \in 1..Len(Rows) : Rows[i].unique_words = NaN
    /\ \E j \in 1..FileLen :
          /\ Found(FileRows[j])
          /\ FileRows[j].flesch_kincaid_score = Text
          /\ ~Survives(j)

(***************************************************************************)
(* C4: generate_insights on an empty cleaned record set returns a no-data  *)
(* summary with total_songs_analyzed = 0 and does not raise.               *)
(***************************************************************************)
C4_EmptyBatchSummary ==
    (/\ last = "generate_insights"
     /\ Cleaned
     /\ Categorized
     /\ Rows = <<>>)
    => (/\ raised = ""
        /\ insights # None
        /\ Get(insights).total_songs_analyzed = 0)

(***************************************************************************)
(* C5: every cleaned record gets exactly one complexity_category, by       *)
(* left-open right-closed bins on flesch_kincaid_score: score <= 30 Very   *)
(* Complex, 30 < score <= 60 Complex, 60 < score <= 80 Moderate,           *)
(* score > 80 Simple.                                                      *)
(***************************************************************************)
ExpectedComplexity(v) ==
    IF v <= 30 THEN "Very Complex"
    ELSE IF v <= 60 THEN "Complex"
    ELSE IF v <= 80 THEN "Moderate"
    ELSE "Simple"

C5_ComplexityBins ==
    Categorized =>
        \A i \in 1..Len(Rows) :
            /\ Parsable(Rows[i].flesch_kincaid_score)
            /\ Rows[i].complexity_category =
                  ExpectedComplexity(Rows[i].flesch_kincaid_score.v)

C5_Witness ==
    /\ Categorized
    /\ \E i \in 1..Len(Rows) :
          Rows[i].flesch_kincaid_score = Num(30)
          /\ Rows[i].complexity_category = "Very Complex"
    /\ \E i \in 1..Len(Rows) :
          Rows[i].flesch_kincaid_score = Num(60)
          /\ Rows[i].complexity_category = "Complex"
    /\ \E i \in 1..Len(Rows) :
          Rows[i].flesch_kincaid_score = Num(80)
          /\ Rows[i].complexity_category = "Moderate"

(***************************************************************************)
(* C6: a rank in 1..100 gets exactly one rank_category (1-10 Top 10,       *)
(* 11-25 Top 25, 26-50 Top 50, 51-100 Top 100); a rank of 0, a negative    *)
(* rank or a rank above 100 gets none, and categorizing cleaned data does  *)
(* not raise.                                                              *)
(***************************************************************************)
ExpectedRankCategory(k) ==
    IF k < 1 \/ k > 100 THEN NoCategory
    ELSE IF k <= 10 THEN "Top 10"
    ELSE IF k <= 25 THEN "Top 25"
    ELSE IF k <= 50 THEN "Top 50"
    ELSE "Top 100"

C6_RankBins ==
    /\ Categorized =>
          \A i \in 1..Len(Rows) :
              Rows[i].rank_category = ExpectedRankCategory(Rows[i].rank)
    /\ (last = "calculate_additional_metrics" /\ Cleaned) =>
          (raised = "" /\ Categorized)

C6_Witness ==
    /\ Categorized
    /\ last = "calculate_additional_metrics"
    /\ \E i \in 1..Len(Rows) : Rows[i].rank = 10 /\ Rows[i].rank_category = "Top 10"
    /\ \E i \in 1..Len(Rows) : Rows[i].rank <= 0 /\ Rows[i].rank_category = NoCategory
    /\ \E i \in 1..Len(Rows) : Rows[i].rank = 101 /\ Rows[i].rank_category = NoCategory

(***************************************************************************)
(* C7: the yearly statistics hold one row per distinct year of the cleaned *)
(* data, in ascending year order; the first row's complexity_trend is      *)
(* null and every other row's is its mean flesch_kincaid_score minus the   *)
(* mean of the row before it.  Means 50, 55, 52 give [null, 5, -3].        *)
(***************************************************************************)
Yearly == Get(yearly_stats)

DataYears == {Rows[i].year[1] : i \in 1..Len(Rows)}

C7_YearlyTrend ==
    (Cleaned /\ yearly_stats # None) =>
        /\ \A a, b \in 1..Len(Yearly) : a < b => Yearly[a].year < Yearly[b].year
        /\ {Yearly[a].year : a \in 1..Len(Yearly)} = DataYears
        /\ \A a \in 1..Len(Yearly) :
              IF a = 1 THEN Yearly[a].complexity_trend = NaN
              ELSE /\ Parsable(Yearly[a].complexity_trend)
                   /\ Yearly[a].complexity_trend.v =
                         Yearly[a].flesch_kincaid_score_mean.v
                         - Yearly[a - 1].flesch_kincaid_score_mean.v
        /\ (/\ Len(Yearly) = 3
            /\ Yearly[1].flesch_kincaid_score_mean = Num(50000)
            /\ Yearly[2].flesch_kincaid_score_mean = Num(55000)
            /\ Yearly[3].flesch_kincaid_score_mean = Num(52000))
           => (/\ Yearly[1].complexity_trend = NaN
               /\ Yearly[2].complexity_trend = Num(5000)
               /\ Yearly[3].complexity_trend = Num(-3000))

C7_Witness ==
    /\ Cleaned
    /\ yearly_stats # None
    /\ Len(Yearly) = 3
    /\ Yearly[2].year = 2019
    /\ Yearly[3].year = 2021
    /\ Yearly[1].flesch_kincaid_score_mean = Num(50000)
    /\ Yearly[2].flesch_kincaid_score_mean = Num(55000)
    /\ Yearly[3].flesch_kincaid_score_mean = Num(52000)
    /\ Yearly[3].complexity_trend = Num(-3000)

(***************************************************************************)
(* C8 and C9 compare a statistic with the values it is taken over.         *)
(***************************************************************************)
StatColumns == {"flesch_kincaid_score", "lexical_diversity", "unique_words",
                "total_words"}

\* Thousandths per unit of a column's values, as the table header says.
PerUnit(col) == IF col = "lexical_diversity" THEN 1 ELSE 1000

\* The values present in a column among the cleaned rows of a year / decade.
ValuesOfYear(y, col) ==
    NumVals(SelectSeq(Rows, LAMBDA r : r.year[1] = y), col)

ValuesOfDecade(d, col) ==
    NumVals(SelectSeq(Rows, LAMBDA r : r.year[1] - (r.year[1] % 10) = d), col)

\* m (thousandths) is the mean of vals rounded to 3 decimals.
IsRoundedMean(m, vals, col) ==
    LET n == Len(vals)
        diff2 == 2 * (n * m - PerUnit(col) * SumSeq(vals))
    IN  -n <= diff2 /\ diff2 <= n

\* sd (thousandths) is sqrt(sum of squared deviations / divisor) rounded to
\* 3 decimals; SumSqDev is n^2 times the sum of squared deviations.
IsRoundedDeviation(sd, vals, divisor, col) ==
    LET n == Len(vals)
        lhs == 4 * PerUnit(col) * PerUnit(col) * SumSqDev(vals, n, SumSeq(vals))
        q == n * n * divisor
    IN  /\ sd >= 0
        /\ (sd = 0 \/ (2 * sd - 1) * (2 * sd - 1) * q <= lhs)
        /\ lhs <= (2 * sd + 1) * (2 * sd + 1) * q

(***************************************************************************)
(* C8 as stated: each year's standard deviation is the population standard *)
(* deviation (divisor n); a year with one record has standard deviation 0. *)
(***************************************************************************)
C8_Original ==
    (Cleaned /\ yearly_stats # None) =>
        \A a \in 1..Len(Yearly) : \A col \in StatColumns :
            LET vals == ValuesOfYear(Yearly[a].year, col)
                sd == Yearly[a][col \o "_std"]
            IN  Len(vals) >= 1 =>
                    (Parsable(sd) /\ IsRoundedDeviation(sd.v, vals, Len(vals), col))

(***************************************************************************)
(* C8 as amended: each year's standard deviation is the sample standard    *)
(* deviation (divisor n - 1) of the values present; a year with exactly    *)
(* one record has an undefined (null) standard deviation for each metric.  *)
(***************************************************************************)
C8_Amended ==
    (Cleaned /\ yearly_stats # None) =>
        \A a \in 1..Len(Yearly) : \A col \in StatColumns :
            LET vals == ValuesOfYear(Yearly[a].year, col)
                sd == Yearly[a][col \o "_std"]
            IN  IF Len(vals) <= 1 THEN sd = NaN
                ELSE /\ Parsable(sd)
                     /\ IsRoundedDeviation(sd.v, vals, Len(vals) - 1, col)

C8_Witness ==
    /\ Cleaned
    /\ yearly_stats # None
    /\ \E a \in 1..Len(Yearly) :
          /\ Len(ValuesOfYear(Yearly[a].year, "flesch_kincaid_score")) = 1
          /\ Yearly[a].flesch_kincaid_score_std = NaN
    /\ \E a \in 1..Len(Yearly) :
          /\ Len(ValuesOfYear(Yearly[a].year, "flesch_kincaid_score")) = 2
          /\ Parsable(Yearly[a].flesch_kincaid_score_std)
          /\ Yearly[a].flesch_kincaid_score_std.v > 0

(***************************************************************************)
(* C9: the decade statistics hold one row per distinct decade              *)
(* (year - year % 10) of the cleaned data, in ascending order; each row    *)
(* holds the mean over all records of the decade of flesch_kincaid_score,  *)
(* lexical_diversity and unique_words.                                     *)
(***************************************************************************)
Decades == Get(decade_stats)

C9_DecadeStats ==
    (Cleaned /\ decade_stats # None) =>
        /\ \A a, b \in 1..Len(Decades) : a < b => Decades[a].decade < Decades[b].decade
        /\ {Decades[a].decade : a \in 1..Len(Decades)} = {y - (y % 10) : y \in DataYears}
        /\ \A a \in 1..Len(Decades) :
              \A col \in {"flesch_kincaid_score", "lexical_diversity", "unique_words"} :
                  LET vals == ValuesOfDecade(Decades[a].decade, col)
                  IN  Len(vals) >= 1 =>
                          /\ Parsable(Decades[a][col])
                          /\ IsRoundedMean(Decades[a][col].v, vals, col)

\* Two records of 2018 scoring 50 and one of 2019 scoring 55: the mean over
\* the records is 51.667, the mean of the yearly means 52.5.
C9_Witness ==
    /\ Cleaned
    /\ decade_stats # None
    /\ Len(Decades) = 1
    /\ Decades[1].decade = 2010
    /\ DataYears = {2018, 2019}
    /\ ValuesOfYear(2018, "flesch_kincaid_score") = <<50, 50>>
    /\ ValuesOfYear(2019, "flesch_kincaid_score") = <<55>>
    /\ Decades[1].flesch_kincaid_score = Num(51667)

(***************************************************************************)
(* C10: most_complex_song is the title of the record with the minimum      *)
(* flesch_kincaid_score, least_complex_song of the one with the maximum,   *)
(* highest_lexical_diversity and most_unique_words of the ones with the    *)
(* maximum lexical_diversity and unique_words; among records sharing the   *)
(* extreme value the first in input order is chosen.                       *)
(***************************************************************************)
\* Row i is the first row whose col is the least (sign 1) or greatest
\* (sign -1) of the values present.
FirstExtreme(i, col, sign) ==
    /\ Parsable(Rows[i][col])
    /\ \A j \in 1..Len(Rows) :
          Parsable(Rows[j][col]) =>
              /\ sign * Rows[i][col].v <= sign * Rows[j][col].v
              /\ (j < i => sign * Rows[i][col].v < sign * Rows[j][col].v)

TitleIsFirstExtreme(title, col, sign) ==
    \E i \in 1..Len(Rows) : Rows[i].title = title /\ FirstExtreme(i, col, sign)

Top == Get(insights).top_metrics

C10_Extremes ==
    (Cleaned /\ insights # None) =>
        /\ TitleIsFirstExtreme(Top.most_complex_song, "flesch_kincaid_score", 1)
        /\ TitleIsFirstExtreme(Top.least_complex_song, "flesch_kincaid_score", -1)
        /\ TitleIsFirstExtreme(Top.highest_lexical_diversity, "lexical_diversity", -1)
        /\ TitleIsFirstExtreme(Top.most_unique_words, "unique_words", -1)

\* The extreme score, diversity and word count are each shared by two rows,
\* and the first of them is not the first row of the data.
C10_Witness ==
    /\ Cleaned
    /\ insights # None
    /\ last = "generate_insights"
    /\ Len(Rows) = 3
    /\ Rows[2].flesch_kincaid_score = Rows[3].flesch_kincaid_score
    /\ Rows[2].flesch_kincaid_score.v < Rows[1].flesch_kincaid_score.v
    /\ Top.most_complex_song = Rows[2].title
    /\ Rows[1].unique_words = Rows[2].unique_words
    /\ Top.most_unique_words = Rows[1].title
    /\ Top.least_complex_song = Rows[1].title

(***************************************************************************)
(* C11: generate_insights includes the complexity_trend entry exactly when *)
(* at least one record has year >= 2020 and at least one has year < 2020;  *)
(* when either partition is empty the entry is omitted and the call does   *)
(* not fail.                                                               *)
(***************************************************************************)
HasRecent == \E i \in 1..Len(Rows) : Rows[i].year[1] >= 2020
HasOlder == \E i \in 1..Len(Rows) : Rows[i].year[1] < 2020

C11_TrendPresence ==
    (/\ last = "generate_insights"
     /\ Cleaned
     /\ Categorized)
    => /\ insights # None =>
            (Get(insights).complexity_trend # None <=> (HasRecent /\ HasOlder))
       /\ ~(HasRecent /\ HasOlder) => (raised = "" /\ insights # None)

(***************************************************************************)
(* C12: rank_complexity in generate_insights is the mean                   *)
(* flesch_kincaid_score per rank_category, rounded to 2 decimals, over the *)
(* records that have a rank_category; a record whose rank is <= 0 or > 100 *)
(* contributes to no rank bucket.                                          *)
(***************************************************************************)
\* The scores of the cleaned records whose rank falls in the bucket.
ScoresOfBucket(l) ==
    LET at == SelectSeq(Rows, LAMBDA r : ExpectedRankCategory(r.rank) = l)
    IN  [i \in 1..Len(at) |-> at[i].flesch_kincaid_score.v]

\* m, in hundredths, is the quotient sum / n rounded to 2 decimals.
IsRoundedMean2(m, sum, n) ==
    /\ 2 * (m * n - 100 * sum) <= n
    /\ 2 * (100 * sum - m * n) <= n

RankComplexity == Get(insights).rank_complexity

C12_RankComplexity ==
    (Cleaned /\ insights # None) =>
        \A l \in {"Top 10", "Top 25", "Top 50", "Top 100"} :
            ScoresOfBucket(l) # <<>> =>
                /\ l \in DOMAIN RankComplexity
                /\ Parsable(RankComplexity[l])
                /\ IsRoundedMean2(RankComplexity[l].v, SumSeq(ScoresOfBucket(l)),
                                  Len(ScoresOfBucket(l)))

\* A record without a rank_category stands beside two records of one bucket
\* whose mean is not a whole number and differs from that record's score.
C12_Witness ==
    /\ Cleaned
    /\ insights # None
    /\ last = "generate_insights"
    /\ \E i \in 1..Len(Rows) : Rows[i].rank > 100 \/ Rows[i].rank <= 0
    /\ \E l \in DOMAIN RankComplexity :
          /\ Len(ScoresOfBucket(l)) = 2
          /\ Parsable(RankComplexity[l])
          /\ RankComplexity[l].v % 100 # 0

(***************************************************************************)
(* Lyric texts.  A text is a sequence of characters; NL is the line break. *)
(* The song records of the extractor hold avg_sentence_length and          *)
(* flesch_kincaid_score in hundredths and lexical_diversity in thousandths.*)
(***************************************************************************)
NL == "\n"

\* The text of test_complexity_calculations.
test_lyrics ==
    <<NL>>
    \o <<" ", " ", " ", " ", "T", "h", "i", "s", " ", "i", "s", " ",
         "a", " ", "t", "e", "s", "t", " ", "s", "o", "n", "g", " ",
         "w", "i", "t", "h", " ", "s", "o", "m", "e", " ", "l", "y",
         "r", "i", "c", "s", NL>>
    \o <<" ", " ", " ", " ", "I", "t", " ", "h", "a", "s", " ", "m",
         "u", "l", "t", "i", "p", "l", "e", " ", "l", "i", "n", "e",
         "s", " ", "a", "n", "d", " ", "s", "o", "m", "e", " ", "r",
         "e", "p", "e", "t", "i", "t", "i", "o", "n", NL>>
    \o <<" ", " ", " ", " ", "T", "h", "i", "s", " ", "i", "s", " ",
         "a", " ", "t", "e", "s", "t", " ", "s", "o", "n", "g", " ",
         "w", "i", "t", "h", " ", "s", "o", "m", "e", " ", "l", "y",
         "r", "i", "c", "s", NL>>
    \o <<" ", " ", " ", " ", "I", "t", " ", "h", "a", "s", " ", "m",
         "u", "l", "t", "i", "p", "l", "e", " ", "l", "i", "n", "e",
         "s", " ", "a", "n", "d", " ", "s", "o", "m", "e", " ", "r",
         "e", "p", "e", "t", "i", "t", "i", "o", "n", NL>>
    \o <<" ", " ", " ", " ">>

\* Four lines of six tokens; the last two lines repeat the first two.
FourLines ==
    <<"a", " ", "A", " ", "b", " ", "a", "a", " ", "a", "b", " ",
         "b", "a", NL>>
    \o <<"b", "b", " ", "a", "A", " ", "A", "a", " ", "A", "A", " ",
         "A", "b", " ", "b", "A", NL>>
    \o <<"a", " ", "A", " ", "b", " ", "a", "a", " ", "a", "b", " ",
         "b", "a", NL>>
    \o <<"b", "b", " ", "a", "A", " ", "A", "a", " ", "A", "A", " ",
         "A", "b", " ", "b", "A">>
whitespace == {" ", NL}

vowels == {"a", "e", "i", "o", "u"}

\* str.lower() on the letters the texts are written with.
lower(c) ==
    IF c = "A" THEN "a" ELSE IF c = "I" THEN "i" ELSE IF c = "T" THEN "t" ELSE c

\* Where a word begins, and where the word that begins at i ends.
WordStarts(s) ==
    {i \in 1..Len(s) : s[i] \notin whitespace /\ (i = 1 \/ s[i - 1] \in whitespace)}

WordEnd(s, i) ==
    CHOOSE j \in i..Len(s) :
        /\ \A k \in i..j : s[k] \notin whitespace
        /\ (j = Len(s) \/ s[j + 1] \in whitespace)

split_at_spaces(s) ==
    LET starts == SortedSeq({i \in 1..Len(s) :
                                s[i] # " " /\ (i = 1 \/ s[i - 1] = " ")})
    IN  [k \in 1..Len(starts) |->
            SubSeq(s, starts[k],
                   CHOOSE j \in starts[k]..Len(s) :
                       /\ \A m \in starts[k]..j : s[m] # " "
                       /\ (j = Len(s) \/ s[j + 1] = " "))]

\* str.split(): the maximal runs of characters that are not whitespace.
split(s) ==
    LET starts == SortedSeq(WordStarts(s))
    IN  [k \in 1..Len(starts) |-> SubSeq(s, starts[k], WordEnd(s, starts[k]))]

\* str.split(sep): the pieces between the separators, empty ones included.
split_on(s, sep) ==
    LET seps == SortedSeq({i \in 1..Len(s) : s[i] = sep})
        n == Len(seps)
    IN  [k \in 1..(n + 1) |->
            SubSeq(s, IF k = 1 THEN 1 ELSE seps[k - 1] + 1,
                      IF k = n + 1 THEN Len(s) ELSE seps[k] - 1)]

\* str.strip()
strip(s) ==
    LET inked == {i \in 1..Len(s) : s[i] \notin whitespace}
    IN  IF inked = {} THEN <<>>
        ELSE SubSeq(s, CHOOSE i \in inked : \A j \in inked : i <= j,
                       CHOOSE i \in inked : \A j \in inked : i >= j)

sentences_with_blank_lines(text) ==
    LET lines == split_on(text, NL)
    IN  [k \in 1..Len(lines) |-> strip(lines[k])]

\* [s.strip() for s in lyrics.split('\n') if s.strip()]
sentences_of(text) ==
    LET lines == split_on(text, NL)
        kept == SelectSeq(lines, LAMBDA l : strip(l) # <<>>)
    IN  [k \in 1..Len(kept) |-> strip(kept[k])]

\* sum(1 for char in lyrics.lower() if char in 'aeiou')
syllables_of(text) ==
    Cardinality({i \in 1..Len(text) : lower(text[i]) \in vowels})

(***************************************************************************)
(* Quotients are kept exact, as numerator and denominator, until round().  *)
(* A division by zero raises ZeroDivisionError.                            *)
(***************************************************************************)
Ratio(a, b) == [num |-> a, den |-> b]

Zero == Ratio(0, 1)

RECURSIVE Gcd(_, _)
Gcd(a, b) == IF b = 0 THEN a ELSE Gcd(b, a % b)

\* The quotient is one a binary float holds exactly.
IsDyadic(r) ==
    LET a == IF r.num < 0 THEN -r.num ELSE r.num
        d == r.den \div Gcd(a, r.den)
    IN  \E k \in 0..30 : d = 2 ^ k

\* round(x, digits) of an exact quotient scaled by 10^digits: the values the
\* float arithmetic can give.  Off a tie it is the nearest one.  On a tie a
\* float that holds the quotient exactly rounds to the even neighbour; any
\* other float lies a rounding error to one side of the tie, so either
\* neighbour is admitted.
round_of(r, scale, exact) ==
    LET a == r.num * scale
        q == a \div r.den
        rem == a - q * r.den
    IN  IF 2 * rem < r.den THEN {q}
        ELSE IF 2 * rem > r.den THEN {q + 1}
        ELSE IF exact THEN {IF q % 2 = 0 THEN q ELSE q + 1}
        ELSE {q, q + 1}

avg_sentence_length_unguarded(total_words, sentences) ==
    Ratio(total_words, Len(sentences))

\* total_words / len(sentences) if sentences else 0
avg_sentence_length_of(total_words, sentences) ==
    IF sentences # <<>> THEN Ratio(total_words, Len(sentences)) ELSE Zero

lexical_diversity_inverted(unique_words, total_words) ==
    IF total_words > 0 THEN Ratio(total_words, unique_words) ELSE Zero

\* unique_words / total_words if total_words > 0 else 0
lexical_diversity_of(unique_words, total_words) ==
    IF total_words > 0 THEN Ratio(unique_words, total_words) ELSE Zero

\* 206.835 - (1.015 * avg_sentence_length) - (84.6 * (syllables / total_words))
\* if total_words > 0 else 0: over the denominator 1000 * avg.den * total_words.
flesch_kincaid_of(avg, syllables, total_words) ==
    IF total_words > 0
    THEN Ratio(206835 * avg.den * total_words
                   - 1015 * avg.num * total_words
                   - 84600 * syllables * avg.den,
               1000 * avg.den * total_words)
    ELSE Zero

ZeroMetrics ==
    [unique_words |-> 0, total_words |-> 0, avg_sentence_length |-> 0,
     flesch_kincaid_score |-> 0, lexical_diversity |-> 0, raised |-> ""]

\* The results calculate_complexity_metrics can return for a text (None: no
\* lyrics); raised names the exception when the call raises instead.
calculate_complexity_metrics(text) ==
    IF text = None \/ Get(text) = <<>> THEN {ZeroMetrics}
    ELSE
        LET words == split(Get(text))
            total_words == Len(words)
            unique_words == Cardinality(SeqToSet(words))
            sentences == sentences_of(Get(text))
            avg == avg_sentence_length_of(total_words, sentences)
            diversity == lexical_diversity_of(unique_words, total_words)
            syllables == syllables_of(Get(text))
            flesch_kincaid == flesch_kincaid_of(avg, syllables, total_words)
        IN  IF avg.den = 0 \/ diversity.den = 0 \/ flesch_kincaid.den = 0
            THEN {[ZeroMetrics EXCEPT !.raised = "ZeroDivisionError"]}
            ELSE {[unique_words |-> unique_words,
                   total_words |-> total_words,
                   avg_sentence_length |-> a,
                   flesch_kincaid_score |-> f,
                   lexical_diversity |-> d,
                   raised |-> ""] :
                     a \in round_of(avg, 100, IsDyadic(avg)),
                     f \in round_of(flesch_kincaid, 100, FALSE),
                     d \in round_of(diversity, 1000, IsDyadic(diversity))}

(***************************************************************************)
(* The calculator on its own: a text is handed to                          *)
(* calculate_complexity_metrics, as the test does.                         *)
(***************************************************************************)
\* Longest enumerated text (characters).
MaxChars == 4

Alphabet == {"a", "A", "b", " ", NL}

\* No lyrics, every text of up to MaxChars characters, and the two long ones.
LyricsInputs ==
    {None}
    \cup {Some(t) : t \in UNION {[1..n -> Alphabet] : n \in 0..MaxChars}}
    \cup {Some(test_lyrics), Some(FourLines)}

InitMetrics ==
    /\ lyrics \in LyricsInputs
    /\ metrics = None
    /\ genius_token = None
    /\ genius = <<>>
    /\ results = <<>>
    /\ data_dir = None
    /\ returncode = None
    /\ NothingScheduled
    /\ input_file = NoFile
    /\ data = None
    /\ yearly_stats = None
    /\ decade_stats = None
    /\ transformed_file = None
    /\ insights = None
    /\ last = "__init__"
    /\ raised = ""

CalculateComplexityMetrics ==
    /\ \E m \in calculate_complexity_metrics(lyrics) :
          /\ metrics' = (IF m.raised = "" THEN Some(m) ELSE None)
          /\ raised' = m.raised
    /\ last' = "calculate_complexity_metrics"
    /\ UNCHANGED <<lyrics, input_file, data, yearly_stats, decade_stats,
                   transformed_file, insights, extractor, disk, scheduler,
                   logs, database>>

NextMetrics == CalculateComplexityMetrics

SpecMetrics == InitMetrics /\ [][NextMetrics]_vars

(***************************************************************************)
(* What the calculator's properties read.                                  *)
(***************************************************************************)
Calculated == last = "calculate_complexity_metrics"
Metrics == Get(metrics)
LyricText == IF lyrics = None THEN <<>> ELSE Get(lyrics)

(***************************************************************************)
(* C13: for every lyric text calculate_complexity_metrics returns          *)
(* unique_words <= total_words and a lexical_diversity within [0, 1].      *)
(***************************************************************************)
C13_DiversityRange ==
    metrics # None =>
        /\ Metrics.unique_words <= Metrics.total_words
        /\ Metrics.lexical_diversity >= 0
        /\ Metrics.lexical_diversity <= 1000

\* A text that repeats a word: fewer distinct words than words.
C13_Witness ==
    /\ Calculated
    /\ metrics # None
    /\ Len(LyricText) <= MaxChars
    /\ Metrics.unique_words = 1
    /\ Metrics.total_words = 2
    /\ Metrics.lexical_diversity = 500

(***************************************************************************)
(* C15: total_words is the number of whitespace-delimited tokens,          *)
(* unique_words the number of distinct tokens (case-sensitive) and         *)
(* avg_sentence_length is total_words divided by the number of non-blank   *)
(* lines; four non-blank lines with 24 tokens, 12 of them distinct, give   *)
(* total_words 24, unique_words 12, avg_sentence_length 6.0 and            *)
(* lexical_diversity 0.5.                                                  *)
(***************************************************************************)
Inked(i) == LyricText[i] \notin {" ", NL}

\* The tokens, each by the place of its last and of its first character.
TokenEnds ==
    {j \in 1..Len(LyricText) :
        Inked(j) /\ (j = Len(LyricText) \/ ~Inked(j + 1))}

TokenFrom(j) ==
    CHOOSE i \in 1..j :
        (\A k \in i..j : Inked(k)) /\ (i = 1 \/ ~Inked(i - 1))

DistinctTokens == {SubSeq(LyricText, TokenFrom(j), j) : j \in TokenEnds}

\* The non-blank lines, each by the place of its first inked character.
NonBlankLines ==
    {i \in 1..Len(LyricText) :
        /\ Inked(i)
        /\ \A j \in 1..(i - 1) :
              Inked(j) => \E k \in j..i : LyricText[k] = NL}

\* v, in hundredths, is a / b rounded to 2 decimals.
IsQuotient2(v, a, b) ==
    /\ 2 * (v * b - 100 * a) <= b
    /\ 2 * (100 * a - v * b) <= b

C16_Total ==
    Calculated =>
        /\ raised = ""
        /\ metrics # None
        /\ Metrics.total_words = 0 =>
              /\ Metrics.avg_sentence_length = 0
              /\ Metrics.lexical_diversity = 0
              /\ Metrics.flesch_kincaid_score = 0

\* A text of blanks and line breaks only has been measured.
C16_Witness ==
    /\ Calculated
    /\ metrics # None
    /\ Len(LyricText) = 3
    /\ \A i \in 1..3 : ~Inked(i)
    /\ \E i \in 1..3 : LyricText[i] = NL
    /\ Metrics.total_words = 0
    /\ Metrics.flesch_kincaid_score = 0

(***************************************************************************)
(* C17: calculate_additional_metrics is idempotent and memoryless: every   *)
(* call that completes leaves the yearly statistics, the decade statistics *)
(* and the categorized records a new object would compute from the same    *)
(* batch, and a call that follows a completed call changes none of them.   *)
(***************************************************************************)
\* What the first call on a new object computes from the batch.
FirstCall ==
    calculate_additional_metrics(Self(None, None, None, None, ""), input_file)

Completed == last = "calculate_additional_metrics" /\ raised = ""

C17_Idempotent ==
    [][/\ Completed' =>
            /\ data' = FirstCall.data
            /\ yearly_stats' = FirstCall.yearly_stats
            /\ decade_stats' = FirstCall.decade_stats
       /\ (Completed /\ last' = "calculate_additional_metrics") =>
            /\ raised' = ""
            /\ data' = data
            /\ yearly_stats' = yearly_stats
            /\ decade_stats' = decade_stats
            /\ transformed_file' = transformed_file]_vars

\* A call has completed on a batch of three records in two years, after
\* generate_insights had already run the aggregation once.
C17_Witness ==
    /\ Completed
    /\ insights # None
    /\ Categorized
    /\ Len(Rows) = 3
    /\ Len(Yearly) = 2
    /\ Len(Decades) >= 1

(***************************************************************************)
(* extract_lyrics.py: the chart, the lyrics provider and the song records. *)
(***************************************************************************)
\* Songs on a chart in the model; the code's chart has 100.
ChartSize == 2

\* Years the model extracts; the code extracts the ten years from 2015.
MaxYears == 2

start_year == 2015

end_year == start_year + MaxYears - 1

top_ten ==
    << <<"Blinding Lights", "The Weeknd">>, <<"Dance Monkey", "Tones and I">>,
       <<"The Box", "Roddy Ricch">>, <<"Don't Start Now", "Dua Lipa">>,
       <<"Someone You Loved", "Lewis Capaldi">>, <<"Circles", "Post Malone">>,
       <<"Sunflower", "Post Malone & Swae Lee">>,
       <<"Shallow", "Lady Gaga & Bradley Cooper">>,
       <<"Old Town Road", "Lil Nas X">>, <<"Bad Guy", "Billie Eilish">> >>

get_billboard_hot_100(year) ==
    [i \in 1..ChartSize |->
        [rank |-> i,
         title |-> IF i <= 10 THEN top_ten[i][1] ELSE "Mock Song " \o ToString(i),
         artist |-> IF i <= 10 THEN top_ten[i][2] ELSE "Mock Artist " \o ToString(i),
         year |-> year]]

\* What genius.search_song does with a query: it returns a song with its
\* lyrics, returns nothing, or raises.
SongWith(text) == [kind |-> "song", lyrics |-> text]
NoResults == [kind |-> "none", lyrics |-> <<>>]
ProviderError == [kind |-> "error", lyrics |-> <<>>]

\* The lyrics, or None when nothing was found and when the search raised.
search_song_lyrics(answer) ==
    IF answer.kind = "song" THEN Some(answer.lyrics) ELSE None

lyrics_found_always(text) == TRUE

\* "lyrics_found": lyrics is not None
lyrics_found_of(text) == text # None

\* The record process_year appends for a song (m: its metrics).
song_data(year, song, text, m) ==
    [year |-> year,
     rank |-> song.rank,
     title |-> song.title,
     artist |-> song.artist,
     lyrics_found |-> lyrics_found_of(text),
     unique_words |-> m.unique_words,
     total_words |-> m.total_words,
     avg_sentence_length |-> m.avg_sentence_length,
     flesch_kincaid_score |-> m.flesch_kincaid_score,
     lexical_diversity |-> m.lexical_diversity]

\* Songs process_multiple_years looks up, and the k-th of them.
TotalSongs == (end_year - start_year + 1) * ChartSize

YearOfSong(k) == start_year + ((k - 1) \div ChartSize)

SongAt(k) == get_billboard_hot_100(YearOfSong(k))[((k - 1) % ChartSize) + 1]

\* A file of ../data: its name, as stem and suffix before ".csv", and rows.
File(stem, suffix, rows) == [stem |-> stem, suffix |-> suffix, rows |-> rows]

\* f"billboard_hot_100_complexity_{start_year}_{end_year}"
output_stem ==
    "billboard_hot_100_complexity_" \o ToString(start_year) \o "_"
        \o ToString(end_year)

\* Writing a file replaces the file of that name and makes it the newest.
write_file(files, f) ==
    SelectSeq(files, LAMBDA g : g.stem # f.stem \/ g.suffix # f.suffix) \o <<f>>

\* The answers the provider gives in the model.
Answers ==
    {NoResults, ProviderError, SongWith(<<>>), SongWith(<<"a", "b">>)}

Token == Some("token")

ExtractorIdle ==
    /\ input_file = NoFile
    /\ data = None
    /\ yearly_stats = None
    /\ decade_stats = None
    /\ transformed_file = None
    /\ insights = None
    /\ last = "__init__"
    /\ raised = ""
    /\ lyrics = None
    /\ metrics = None

InitExtract ==
    /\ genius_token \in {None, Token}
    /\ data_dir \in {None, Some(<<>>)}
    /\ genius = <<>>
    /\ results = <<>>
    /\ returncode = None
    /\ ExtractorIdle
    /\ NothingScheduled

\* A script or task logs a message.
Logs(i, message) == log' = [log EXCEPT ![i] = message]

\* main without GENIUS_ACCESS_TOKEN: logs the error and returns.
MainWithoutToken ==
    /\ returncode = None
    /\ genius_token = None
    /\ returncode' = Some(0)
    /\ Logs(Extract, "GENIUS_ACCESS_TOKEN not found in environment variables")
    /\ UNCHANGED <<genius_token, genius, results, disk, transformer, calculator,
                   scheduler, database>>

\* One turn of the loop of process_year: the next song of the next chart,
\* with the provider answering from a pool.
Process(pool) ==
    /\ returncode = None
    /\ genius_token # None
    /\ Len(results) < TotalSongs
    /\ \E answer \in pool :
          LET k == Len(results) + 1
              text == search_song_lyrics(answer)
          IN  \E m \in calculate_complexity_metrics(text) :
                 /\ genius' = Append(genius, answer)
                 /\ IF m.raised = ""
                    THEN /\ results' = Append(results,
                                song_data(YearOfSong(k), SongAt(k), text, m))
                         /\ Logs(Extract, "Processing: " \o SongAt(k).title)
                         /\ UNCHANGED returncode
                    ELSE /\ returncode' = Some(1)
                         /\ Logs(Extract, "Error during processing")
                         /\ UNCHANGED results
    /\ UNCHANGED <<genius_token, disk, transformer, calculator, scheduler,
                   database>>

ProcessSong == Process(Answers)

\* main after the last song: results_df.to_csv(output_file); an error
\* (the directory is not there) is logged and raised again.
SaveResults ==
    /\ returncode = None
    /\ genius_token # None
    /\ Len(results) = TotalSongs
    /\ IF data_dir = None
       THEN /\ returncode' = Some(1)
            /\ Logs(Extract, "Error during processing")
            /\ UNCHANGED data_dir
       ELSE /\ data_dir' = Some(write_file(Get(data_dir),
                                           File(output_stem, "", results)))
            /\ returncode' = Some(0)
            /\ Logs(Extract, "Successfully processed songs")
    /\ UNCHANGED <<genius_token, genius, results, transformer, calculator,
                   scheduler, database>>

NextExtract == MainWithoutToken \/ ProcessSong \/ SaveResults

SpecExtract == InitExtract /\ [][NextExtract]_vars

(***************************************************************************)
(* The extraction task of the DAG: it fails when the script's exit status  *)
(* is not 0.                                                               *)
(***************************************************************************)
task_fails(code) == code # 0

(***************************************************************************)
(* What the extraction's properties read: the k-th answer of the provider  *)
(* and the record made from it.                                            *)
(***************************************************************************)
Exited == returncode # None
Recorded == 1..Len(results)
GaveText(k) == genius[k].kind = "song" /\ genius[k].lyrics # <<>>
AllZero(r) ==
    /\ r.unique_words = 0
    /\ r.total_words = 0
    /\ r.avg_sentence_length = 0
    /\ r.flesch_kincaid_score = 0
    /\ r.lexical_diversity = 0

(***************************************************************************)
(* C14: absent lyrics and the empty string produce the same song record,   *)
(* all five metrics zero and lyrics_found = false; lyrics_found is true    *)
(* only when the provider returned non-empty text.                         *)
(***************************************************************************)
C14_EmptyLikeAbsent ==
    \A k \in Recorded :
        /\ ~GaveText(k) => (AllZero(results[k]) /\ ~results[k].lyrics_found)
        /\ results[k].lyrics_found => GaveText(k)

(***************************************************************************)
(* C20: when the provider's search raises for a song, the extraction task  *)
(* fails; the song is not recorded with lyrics_found = false.              *)
(***************************************************************************)
C20_ProviderFailureSurfaced ==
    /\ \A k \in Recorded : genius[k].kind # "error"
    /\ (Exited /\ \E k \in 1..Len(genius) : genius[k].kind = "error")
          => task_fails(Get(returncode))

(***************************************************************************)
(* airflow/lyrics_complexity_dag.py: six tasks in a chain.  A task runs    *)
(* when the task before it has succeeded; a task that raises is tried      *)
(* again while it has retries left and fails otherwise, and the tasks      *)
(* after a failed task are not run.                                        *)
(***************************************************************************)
retries == 1

runnable_whatever_came_before(t) ==
    /\ task_state[t] \in {"none", "up_for_retry"}
    /\ t > 1 => task_state[t - 1] \in {"success", "failed"}

\* The task may be started: it waits for a first or a further try and the
\* task before it, if any, has succeeded.
Runnable(t) ==
    /\ task_state[t] \in {"none", "up_for_retry"}
    /\ t > 1 => task_state[t - 1] = "success"

\* The state of a task whose try (the tries-th) has ended.
state_after(tries, failed) ==
    IF ~failed THEN "success"
    ELSE IF tries <= retries THEN "up_for_retry"
    ELSE "failed"

\* A task that runs in one step: one more try, and its outcome.
Ends(t, failed) ==
    /\ try_number' = [try_number EXCEPT ![t] = @ + 1]
    /\ task_state' = [task_state EXCEPT
                          ![t] = state_after(try_number[t] + 1, failed)]

(***************************************************************************)
(* The files the scripts and tasks look for in ../data.                    *)
(***************************************************************************)
\* data_dir.glob(...): nothing when the directory is not there.
Listing == IF data_dir = None THEN <<>> ELSE Get(data_dir)

\* "billboard_hot_100_complexity_*.csv"
glob_lyrics(files) == SelectSeq(files, LAMBDA f : f.stem = output_stem)

\* "*_transformed.csv", "*_yearly_stats.csv", "*_decade_stats.csv"
glob_suffix(files, suffix) == SelectSeq(files, LAMBDA f : f.suffix = suffix)

\* max(files, key=lambda x: x.stat().st_mtime)
most_recent(files) == files[Len(files)]

(***************************************************************************)
(* transform_lyrics.py main                                                *)
(***************************************************************************)
\* pd.read_csv of a file extract_lyrics.py wrote.  The file holds the
\* sentence length and the score with two decimals; the transformer's rows
\* count them in whole units.
read_song(r) ==
    [title |-> r.title, artist |-> r.artist]
    @@ Row(r.year, r.rank, IF r.lyrics_found THEN "True" ELSE "False",
           Num(r.unique_words), Num(r.total_words), Num(r.avg_sentence_length),
           Num(r.flesch_kincaid_score \div 100), Num(r.lexical_diversity))

read_songs(rows) == [i \in 1..Len(rows) |-> read_song(rows[i])]

NewTransformer == Self(None, None, None, None, "")

\* save_transformed_data, when the transformer got that far: the three
\* files next to the input file.
save_transformed_data(files, input, s) ==
    IF s.transformed_file = None THEN files
    ELSE write_file(write_file(write_file(files,
             File(input.stem, "_transformed", Get(s.transformed_file))),
             File(input.stem, "_yearly_stats", Get(s.yearly_stats))),
             File(input.stem, "_decade_stats", Get(s.decade_stats)))

\* The end of main, given what generate_insights left (g).
transform_exit(files, input, g) ==
    [returncode |-> IF g.self.raised # "" THEN 1 ELSE 0,
     files |-> save_transformed_data(files, input, g.self),
     message |-> IF g.self.raised # "" THEN "Error during transformation"
                 ELSE "Data transformation completed successfully"]

\* The transformer's two calls on the file main picked.
transform_file(files, input, file) ==
    transform_exit(files, input,
        generate_insights(calculate_additional_metrics(NewTransformer, file),
                          file))

\* What main does with ../data: exit status, message and files written.
\* Only a file the extraction wrote has the columns the transformer reads;
\* with a file of an earlier transformation as input the cleaning raises.
transform_main(files) ==
    IF glob_lyrics(files) = <<>>
    THEN [returncode |-> 0, files |-> files,
          message |-> "No lyrics data files found in ../data/"]
    ELSE IF most_recent(glob_lyrics(files)).suffix # ""
    THEN [returncode |-> 1, files |-> files,
          message |-> "Error during transformation"]
    ELSE transform_file(files, most_recent(glob_lyrics(files)),
                        Some(read_songs(most_recent(glob_lyrics(files)).rows)))

(***************************************************************************)
(* load_to_postgres.py main                                                *)
(***************************************************************************)
\* What can go wrong with the database during a load ("": nothing).
DbFaults == {"", "connect", "create_tables", "load_lyrics_complexity",
             "load_yearly_stats", "load_decade_stats", "connection_lost"}

\* pd.to_datetime(year).dt.year of a date as the CSV holds it.
year_of_date(date) ==
    CHOOSE y \in start_year - 5 .. end_year + 5 : DateStr(<<y, 1, 1>>) = date

\* The rows to_sql inserts into lyrics_complexity.
rows_to_insert(rows) ==
    [i \in 1..Len(rows) |->
        [f \in {"year", "rank", "title", "artist", "lyrics_found",
                "unique_words", "total_words", "avg_sentence_length",
                "flesch_kincaid_score", "lexical_diversity",
                "complexity_category", "rank_category"} |->
            IF f = "year" THEN year_of_date(rows[i].year) ELSE rows[i][f]]]

\* CREATE TABLE IF NOT EXISTS
create_tables(t) == [n \in table_names |-> IF t[n] = None THEN Some(<<>>) ELSE t[n]]

to_sql_append(t, name, rows) ==
    [t EXCEPT ![name] = IF @ = None THEN Some(rows) ELSE Some(Get(@) \o rows)]

\* to_sql(..., if_exists='replace')
to_sql(t, name, rows) == [t EXCEPT ![name] = Some(rows)]

\* The methods main calls on its loader, in this order; the two loads of
\* statistics only when such a file was found.
load_steps == <<"connect", "create_tables", "load_lyrics_complexity",
                "load_yearly_stats", "load_decade_stats",
                "run_analytics_queries">>

StepNo(step) == CHOOSE i \in 1..Len(load_steps) : load_steps[i] = step

is_called(step, yearly, decade) ==
    /\ step = "load_yearly_stats" => yearly # None
    /\ step = "load_decade_stats" => decade # None

\* finally: loader.close()
with_close(called) == Append(called, "close")

calls_closing_after_success_only(step, yearly, decade) ==
    LET called == SelectSeq(SubSeq(load_steps, 1, StepNo(step)),
                            LAMBDA m : is_called(m, yearly, decade))
    IN  IF step = "run_analytics_queries" THEN with_close(called) ELSE called

\* The calls of a run of main that leaves the try block in or after the
\* given step.
calls_until(step, yearly, decade) ==
    with_close(SelectSeq(SubSeq(load_steps, 1, StepNo(step)),
                         LAMBDA m : is_called(m, yearly, decade)))

\* close(): the connection is closed when there is one.
close(conn) == IF conn = "open" THEN "closed" ELSE conn

\* The connection after these calls, given what it was before close().
connection_after(called, conn) ==
    IF called # <<>> /\ called[Len(called)] = "close" THEN close(conn) ELSE conn

\* A run of main that constructed its loader and left the try block in or
\* after the step, with the connection as it was then.
load_exit(code, t, message, step, yearly, decade, conn) ==
    [returncode |-> code, tables |-> t, message |-> message,
     calls |-> calls_until(step, yearly, decade),
     connection |-> connection_after(calls_until(step, yearly, decade), conn)]

\* What main does with the files it picked (None: no such file), the fault
\* the database has and the tables: exit status, message, tables, the calls
\* on the loader and the connection at the end.
load_main(transformed, yearly, decade, fault, t) ==
    LET created == create_tables(t)
        t1 == to_sql(created, "lyrics_complexity",
                     rows_to_insert(Get(transformed).rows))
        t2 == IF yearly = None THEN t1
              ELSE to_sql(t1, "yearly_complexity_stats", Get(yearly).rows)
        t3 == IF decade = None THEN t2
              ELSE to_sql(t2, "decade_complexity_stats", Get(decade).rows)
    IN  IF transformed = None
        THEN [returncode |-> 0, tables |-> t,
              message |-> "No transformed data files found",
              calls |-> <<>>, connection |-> "none"]
        ELSE IF fault = "connect"
        THEN load_exit(0, t, "Failed to connect to database",
                       "connect", yearly, decade, "none")
        ELSE IF fault = "create_tables"
        THEN load_exit(0, t, "Error creating tables",
                       "create_tables", yearly, decade, "open")
        ELSE IF fault = "load_lyrics_complexity"
        THEN load_exit(0, created, "Error loading lyrics complexity data",
                       "load_lyrics_complexity", yearly, decade, "open")
        ELSE IF fault = "connection_lost"
        THEN load_exit(1, created, "Error during data loading",
                       "load_lyrics_complexity", yearly, decade, "open")
        ELSE IF yearly # None /\ fault = "load_yearly_stats"
        THEN load_exit(0, t1, "Error loading yearly stats",
                       "load_yearly_stats", yearly, decade, "open")
        ELSE IF decade # None /\ fault = "load_decade_stats"
        THEN load_exit(0, t2, "Error loading decade stats",
                       "load_decade_stats", yearly, decade, "open")
        ELSE load_exit(0, t3, "Data loading completed successfully",
                       "run_analytics_queries", yearly, decade, "open")

\* The name of a file main picked.
name_of(file) ==
    IF file = None THEN None
    ELSE Some([stem |-> Get(file).stem, suffix |-> Get(file).suffix])

\* files[0] of a glob: any of the files found, None when there is none.
AnyOf(files) ==
    IF files = <<>> THEN {None} ELSE {Some(files[i]) : i \in 1..Len(files)}

(***************************************************************************)
(* data_quality_check and generate_summary_report                          *)
(***************************************************************************)
MinRecords == 100

\* df['lyrics_found'].sum()
lyrics_found_sum(rows) ==
    Len(SelectSeq(rows, LAMBDA r : r.lyrics_found = "True"))

\* The message of the exception data_quality_check raises, "" when it
\* returns.
data_quality_check(files) ==
    LET found == glob_suffix(files, "_transformed")
        df == most_recent(found).rows
        total_records == Len(df)
        missing_lyrics == lyrics_found_sum(df)
    IN  IF found = <<>> THEN "No transformed data files found"
        ELSE IF total_records < MinRecords THEN "Insufficient data"
        ELSE IF 2 * missing_lyrics > total_records THEN "Too many missing lyrics"
        ELSE ""

\* generate_summary_report: the exception it raises ("": none) and the
\* file it writes, of which the model keeps the song count.
generate_summary_report(files) ==
    LET found == glob_suffix(files, "_transformed")
        df == most_recent(found).rows
    IN  IF found = <<>>
        THEN [raised |-> "No transformed data files found", files |-> files]
        ELSE IF df = <<>>
        THEN [raised |-> "ValueError", files |-> files]
        ELSE IF NumVals(df, "flesch_kincaid_score") = <<>>
        THEN [raised |-> "KeyError", files |-> files]
        ELSE [raised |-> "",
              files |-> write_file(files,
                            File("pipeline_summary", "",
                                 <<[total_songs_analyzed |-> Len(df)]>>))]

\* cleanup_temp_files: "*.tmp", "*_temp*" and "*.log" are removed.
is_temp(f) == f.suffix \in {".tmp", "_temp", ".log"}

cleanup_temp_files(files) == SelectSeq(files, LAMBDA f : ~is_temp(f))

(***************************************************************************)
(* What ../data holds before a DAG run: nothing, or files other runs and   *)
(* other programs left there.                                              *)
(***************************************************************************)
\* A row of a *_transformed.csv file.
TransformedRow(i, lf) ==
    [CsvRow(Categorize(CoerceRow(
                [title |-> "Song " \o ToString(i), artist |-> "Artist", idx |-> i - 1]
                @@ Row(end_year, ((i - 1) % MinRecords) + 1, "True",
                       Num(10), Num(20), Num(5), Num(50), Num(500)),
                "int64")),
            "datetime64")
     EXCEPT !.lyrics_found = lf]

\* A *_transformed.csv file that is not this extraction's, with so many
\* rows that say lyrics_found True and so many that say False.
ArchiveFile(found, missing) ==
    File("archive", "_transformed",
         [i \in 1..(found + missing) |->
             TransformedRow(i, IF i <= found THEN "True" ELSE "False")])

Half == MinRecords \div 2

\* Records with and without lyrics around the thresholds of the gate.
ArchiveCounts ==
    {<<MinRecords, 0>>, <<Half, Half>>, <<Half - 1, Half + 1>>,
     <<0, MinRecords>>, <<MinRecords - 1, 0>>}

\* A directory with such a file and a temporary file.
Archive(c) ==
    Some(<<File("scratch", "_temp", <<>>), ArchiveFile(c[1], c[2])>>)

\* The directories a run without the API token finds, and those a run
\* with it finds.
Directories(token) ==
    {None, Some(<<>>)}
    \cup {Archive(c) : c \in IF token = None THEN ArchiveCounts
                              ELSE {<<MinRecords, 0>>}}

\* The answers the provider gives in the DAG's runs; their metrics are whole
\* numbers.
ElevenWords ==
    <<"a", "a", " ", "a", "a", " ", "a", "a", " ", "a", " ", "a", " ", "a",
      " ", "a", " ", "a", " ", "a", " ", "a", " ", "a">>

DagAnswers == {NoResults, SongWith(ElevenWords)}

(***************************************************************************)
(* The DAG run as a state machine.                                         *)
(***************************************************************************)
InitDag ==
    /\ genius_token \in {None, Token}
    /\ data_dir \in Directories(genius_token)
    /\ genius = <<>>
    /\ results = <<>>
    /\ returncode = None
    /\ ExtractorIdle
    /\ NothingScheduled

Running(t) == task_state[t] = "running"

\* extract_lyrics_data starts extract_lyrics.py as a subprocess.
StartExtract ==
    /\ Runnable(Extract)
    /\ task_state' = [task_state EXCEPT ![Extract] = "running"]
    /\ try_number' = [try_number EXCEPT ![Extract] = @ + 1]
    /\ genius' = <<>>
    /\ results' = <<>>
    /\ returncode' = None
    /\ UNCHANGED <<genius_token, disk, transformer, calculator, logs, database>>

ProcessDagSong == Process(DagAnswers)

\* A step of extract_lyrics.py while the task waits for it.
ExtractStep ==
    /\ Running(Extract)
    /\ (MainWithoutToken \/ ProcessDagSong \/ SaveResults)

\* The subprocess has ended: the task raises when its exit status is not 0.
FinishExtract ==
    /\ Running(Extract)
    /\ returncode # None
    /\ task_state' = [task_state EXCEPT ![Extract] =
                          state_after(try_number[Extract],
                                      task_fails(Get(returncode)))]
    /\ UNCHANGED <<try_number, extractor, disk, transformer, calculator, logs,
                   database>>

\* transform_lyrics_data
RunTransform ==
    /\ Runnable(Transform)
    /\ \E res \in {transform_main(Listing)} :
           /\ data_dir' = IF data_dir = None THEN None ELSE Some(res.files)
           /\ Logs(Transform, res.message)
           /\ Ends(Transform, task_fails(res.returncode))
    /\ UNCHANGED <<extractor, transformer, calculator, database>>

\* load_to_postgres
RunLoad ==
    /\ Runnable(Load)
    /\ \E fault \in DbFaults :
       \E transformed \in AnyOf(glob_suffix(Listing, "_transformed")) :
       \E yearly \in AnyOf(glob_suffix(Listing, "_yearly_stats")) :
       \E decade \in AnyOf(glob_suffix(Listing, "_decade_stats")) :
          LET res == load_main(transformed, yearly, decade, fault, tables)
          IN  /\ tables' = res.tables
              /\ tables_before' = tables
              /\ calls' = res.calls
              /\ connection' = res.connection
              /\ picked' = IF transformed = None THEN None
                            ELSE Some([transformed |-> name_of(transformed),
                                       yearly |-> name_of(yearly),
                                       decade |-> name_of(decade)])
              /\ Logs(Load, res.message)
              /\ Ends(Load, task_fails(res.returncode))
    /\ UNCHANGED <<extractor, disk, transformer, calculator>>

RunQualityCheck ==
    /\ Runnable(QualityCheck)
    /\ LET exc == data_quality_check(Listing)
       IN  /\ Logs(QualityCheck,
                   IF exc = "" THEN "Data quality check passed" ELSE exc)
           /\ Ends(QualityCheck, exc # "")
    /\ UNCHANGED <<extractor, disk, transformer, calculator, database>>

RunReport ==
    /\ Runnable(Report)
    /\ LET res == generate_summary_report(Listing)
       IN  /\ data_dir' = IF data_dir = None THEN None ELSE Some(res.files)
           /\ Logs(Report,
                   IF res.raised = "" THEN "Summary report generated"
                   ELSE res.raised)
           /\ Ends(Report, res.raised # "")
    /\ UNCHANGED <<extractor, transformer, calculator, database>>

RunCleanup ==
    /\ Runnable(Cleanup)
    /\ data_dir' = IF data_dir = None THEN None
                   ELSE Some(cleanup_temp_files(Get(data_dir)))
    /\ Logs(Cleanup, "Cleaned up temporary files")
    /\ Ends(Cleanup, FALSE)
    /\ UNCHANGED <<extractor, transformer, calculator, database>>

\* A task whose upstream task has failed is not run.
SkipDownstream ==
    \E t \in Tasks \ {Extract} :
        /\ task_state[t] = "none"
        /\ task_state[t - 1] \in {"failed", "upstream_failed"}
        /\ task_state' = [task_state EXCEPT ![t] = "upstream_failed"]
        /\ UNCHANGED <<try_number, extractor, disk, transformer, calculator,
                       logs, database>>

NextDag ==
    \/ StartExtract
    \/ ExtractStep
    \/ FinishExtract
    \/ RunTransform
    \/ RunLoad
    \/ RunQualityCheck
    \/ RunReport
    \/ RunCleanup
    \/ SkipDownstream

SpecDag == InitDag /\ [][NextDag]_vars

(***************************************************************************)
(* What the properties of the DAG read.                                    *)
(***************************************************************************)
\* The task has ended a try.
Tried(t) == task_state[t] \in {"success", "up_for_retry", "failed"}
Rejected(t) == task_state[t] \in {"up_for_retry", "failed"}

TransformedFiles == glob_suffix(Listing, "_transformed")

\* The rows the gate reads, and those of them without lyrics.
GateRows == most_recent(TransformedFiles).rows
MissingLyrics == Len(SelectSeq(GateRows, LAMBDA r : r.lyrics_found # "True"))

\* What a script logs when it returns before its work is done.
StageFailures ==
    {"GENIUS_ACCESS_TOKEN not found in environment variables",
     "No lyrics data files found in ../data/",
     "No transformed data files found",
     "Failed to connect to database",
     "Error creating tables",
     "Error loading lyrics complexity data",
     "Error loading yearly stats",
     "Error loading decade stats"}

(***************************************************************************)
(* C18: the quality gate rejects a run exactly when the transformed data   *)
(* has fewer than 100 records or more than half of its records have no     *)
(* lyrics; at least 100 records of which at most half lack lyrics pass.     *)
(***************************************************************************)
C18_QualityGate ==
    (Tried(QualityCheck) /\ TransformedFiles # <<>>) =>
        (Rejected(QualityCheck) <=>
            \/ Len(GateRows) < MinRecords
            \/ 2 * MissingLyrics > Len(GateRows))

(***************************************************************************)
(* C19: when the extract, transform or load script ends without completing *)
(* its work (no API token, no input file, a database connect, create-table *)
(* or load failure), its task fails and no task after it is started.       *)
(***************************************************************************)
C19_StageFailureAborts ==
    \A t \in {Extract, Transform, Load} :
        (Tried(t) /\ log[t] \in StageFailures) =>
            /\ Rejected(t)
            /\ try_number[t + 1] = 0

(***************************************************************************)
(* load_to_postgres.py run on its own, any number of times, over a         *)
(* directory that holds the output of no, one or two transformations.      *)
(***************************************************************************)
\* The three files a transformation of these raw rows leaves.
TransformOutputs(stem, rows) ==
    save_transformed_data(<<>>, File(stem, "", rows),
        calculate_additional_metrics(NewTransformer,
            Some([i \in 1..Len(rows) |-> [artist |-> "Artist"] @@ rows[i]])))

TwoSongs ==
    WithTitles(<<Row(start_year, 1, "True", Num(10), Num(20), Num(5), Num(50), Num(500)),
                 Row(start_year + 1, 2, "True", Num(12), Num(22), Num(5), Num(70), Num(545))>>)

OneSong ==
    WithTitles(<<Row(start_year, 3, "True", Num(8), Num(16), Num(4), Num(90), Num(500))>>)

LoadDirectories ==
    LET a == TransformOutputs(output_stem, TwoSongs)
        b == TransformOutputs("archive", OneSong)
    IN  {None, Some(<<>>), Some(a), Some(b), Some(a \o b), Some(b \o a),
         Some(<<a[1]>>), Some(<<a[1]>> \o b), Some(<<b[1], b[3]>> \o a)}

InitLoad ==
    /\ data_dir \in LoadDirectories
    /\ genius_token = None
    /\ genius = <<>>
    /\ results = <<>>
    /\ returncode = None
    /\ ExtractorIdle
    /\ NothingScheduled

\* python load_to_postgres.py
LoadToPostgres ==
    /\ \E fault \in DbFaults :
       \E transformed \in AnyOf(glob_suffix(Listing, "_transformed")) :
       \E yearly \in AnyOf(glob_suffix(Listing, "_yearly_stats")) :
       \E decade \in AnyOf(glob_suffix(Listing, "_decade_stats")) :
          LET res == load_main(transformed, yearly, decade, fault, tables)
          IN  /\ tables' = res.tables
              /\ tables_before' = tables
              /\ calls' = res.calls
              /\ connection' = res.connection
              /\ picked' = IF transformed = None THEN None
                            ELSE Some([transformed |-> name_of(transformed),
                                       yearly |-> name_of(yearly),
                                       decade |-> name_of(decade)])
              /\ Logs(Load, res.message)
    /\ UNCHANGED <<extractor, disk, transformer, calculator, scheduler>>

NextLoad == LoadToPostgres

SpecLoad == InitLoad /\ [][NextLoad]_vars

(***************************************************************************)
(* What the properties of the load read.                                   *)
(***************************************************************************)
LoaderConstructed == picked # None
LoadSucceeded ==
    LoaderConstructed /\ log[Load] = "Data loading completed successfully"

\* The rows of the file of ../data with this name.
RowsOfFile(name) ==
    LET i == CHOOSE k \in 1..Len(Listing) :
                 Listing[k].stem = name.stem /\ Listing[k].suffix = name.suffix
    IN  Listing[i].rows

\* The table holds one row per row of the file, in the file's order, with
\* the file's values in the columns it has.
SameRows(table, rows, columns) ==
    /\ Len(table) = Len(rows)
    /\ \A i \in 1..Len(rows) : \A c \in columns : table[i][c] = rows[i][c]

lyrics_columns ==
    {"rank", "title", "artist", "lyrics_found", "unique_words", "total_words",
     "avg_sentence_length", "flesch_kincaid_score", "lexical_diversity",
     "complexity_category", "rank_category"}

(***************************************************************************)
(* C21: each load is a full replace: after a successful run of the load,   *)
(* whatever runs came before it, each of the three tables holds exactly    *)
(* the rows of the file this run loaded into it, with no rows of earlier   *)
(* runs left over and no row twice.                                        *)
(***************************************************************************)
C21_FullReplace ==
    LoadSucceeded =>
        /\ SameRows(Get(tables["lyrics_complexity"]),
                    RowsOfFile(Get(Get(picked).transformed)), lyrics_columns)
        /\ Get(picked).yearly # None =>
              Get(tables["yearly_complexity_stats"])
                  = RowsOfFile(Get(Get(picked).yearly))
        /\ Get(picked).decade # None =>
              Get(tables["decade_complexity_stats"])
                  = RowsOfFile(Get(Get(picked).decade))

\* A successful load of the one-song files into tables that held the rows
\* of the two-song files.
C21_Witness ==
    /\ LoadSucceeded
    /\ \A n \in table_names : tables_before[n] # None
    /\ Len(Get(tables_before["lyrics_complexity"])) = 2
    /\ Len(Get(tables_before["yearly_complexity_stats"])) = 2
    /\ Get(picked).transformed = Some([stem |-> "archive", suffix |-> "_transformed"])
    /\ Get(picked).yearly = Some([stem |-> "archive", suffix |-> "_yearly_stats"])
    /\ Get(picked).decade # None
    /\ Len(Get(tables["lyrics_complexity"])) = 1
    /\ Len(Get(tables["yearly_complexity_stats"])) = 1

(***************************************************************************)
(* C22: the extraction makes one record for every song of every requested  *)
(* year, found or not: as many records as songs on a chart times years,     *)
(* ordered by year and then by rank; a song without lyrics gives a record   *)
(* with lyrics_found false and all metrics zero, never a failure or a       *)
(* missing row.                                                             *)
(***************************************************************************)
YearsRequested == end_year - start_year + 1
Saved == Exited /\ log[Extract] = "Successfully processed songs"

C22_OneRecordPerSong ==
    /\ Len(results) = Len(genius)
    /\ \A k \in Recorded :
          /\ results[k].year = start_year + ((k - 1) \div ChartSize)
          /\ results[k].rank = ((k - 1) % ChartSize) + 1
          /\ genius[k].kind = "none" =>
                (~results[k].lyrics_found /\ AllZero(results[k]))
    /\ \A j, k \in Recorded :
          j < k => \/ results[j].year < results[k].year
                   \/ /\ results[j].year = results[k].year
                      /\ results[j].rank < results[k].rank
    /\ Saved => Len(results) = ChartSize * YearsRequested
    /\ (Exited /\ genius_token # None /\ ~Saved) =>
          (Len(results) = ChartSize * YearsRequested /\ data_dir = None)

\* A finished extraction in which the first song had no lyrics and the
\* last one had.
C22_Witness ==
    /\ Saved
    /\ Get(returncode) = 0
    /\ genius[1].kind = "none"
    /\ GaveText(Len(genius))
    /\ most_recent(Get(data_dir)).rows = results

(***************************************************************************)
(* C23: a metric value that is missing after cleaning is absent from the   *)
(* yearly and decade aggregates, not counted as zero: the mean of a group  *)
(* is taken over the records of the group whose value is present.          *)
(***************************************************************************)
\* The values of a column in the cleaned rows a test selects, missing ones
\* left out.
PresentValues(InGroup(_), col) ==
    LET present == SelectSeq(Rows, LAMBDA r : InGroup(r) /\ Parsable(r[col]))
    IN  [i \in 1..Len(present) |-> present[i][col].v]

MeanOverPresent(m, vals, col) ==
    IF vals = <<>> THEN m = NaN
    ELSE Parsable(m) /\ IsRoundedMean(m.v, vals, col)

C23_MissingIsAbsent ==
    (Cleaned /\ yearly_stats # None /\ decade_stats # None) =>
        /\ \A a \in 1..Len(Yearly) : \A col \in StatColumns :
              MeanOverPresent(Yearly[a][col \o "_mean"],
                  PresentValues(LAMBDA r : r.year[1] = Yearly[a].year, col), col)
        /\ \A a \in 1..Len(Decades) :
              \A col \in {"flesch_kincaid_score", "lexical_diversity", "unique_words"} :
                  MeanOverPresent(Decades[a][col],
                      PresentValues(LAMBDA r : r.year[1] - (r.year[1] % 10)
                                                   = Decades[a].decade, col), col)

\* Two records of 2019, one with 30 unique words and one whose count is
\* missing: the mean is 30, not 15; a year in which every count is missing
\* has no mean.
C23_Witness ==
    /\ Cleaned
    /\ yearly_stats # None
    /\ decade_stats # None
    /\ Len(Rows) = 3
    /\ \E i, j \in 1..Len(Rows) :
          /\ Rows[i].year[1] = 2019 /\ Rows[i].unique_words = Num(30)
          /\ Rows[j].year[1] = 2019 /\ Rows[j].unique_words = NaN
    /\ Yearly[1].year = 2019
    /\ Yearly[1].unique_words_mean = Num(30000)
    /\ Decades[1].unique_words = Num(30000)
    /\ Len(Yearly) = 2
    /\ Yearly[2].unique_words_mean = NaN

(***************************************************************************)
(* transform_lyrics.py run on its own, any number of times, over a         *)
(* directory that holds the file of one extraction.                        *)
(***************************************************************************)
\* The records an extraction makes when the provider gives these answers.
results_of(answers) ==
    [k \in 1..Len(answers) |->
        song_data(YearOfSong(k), SongAt(k), search_song_lyrics(answers[k]),
                  CHOOSE m \in calculate_complexity_metrics(
                                   search_song_lyrics(answers[k])) : TRUE)]

RawAnswers == {NoResults, SongWith(ElevenWords), SongWith(<<>>)}

RawFiles ==
    {File(output_stem, "", results_of(a)) : a \in [1..TotalSongs -> RawAnswers]}

InitTransformMain ==
    /\ data_dir \in {None, Some(<<>>)} \cup {Some(<<f>>) : f \in RawFiles}
    /\ genius_token = None
    /\ genius = <<>>
    /\ results = <<>>
    /\ returncode = None
    /\ ExtractorIdle
    /\ NothingScheduled

\* python transform_lyrics.py: input_file is what the run read as its
\* input, raised the exception it ended with.
TransformMain ==
    /\ \E res \in {transform_main(Listing)} :
           /\ data_dir' = IF data_dir = None THEN None ELSE Some(res.files)
           /\ Logs(Transform, res.message)
           /\ raised' = IF res.returncode = 0 THEN "" ELSE "Exception"
    /\ input_file' = IF glob_lyrics(Listing) = <<>> THEN NoFile
                     ELSE Some(most_recent(glob_lyrics(Listing)).rows)
    /\ last' = "main"
    /\ UNCHANGED <<data, yearly_stats, decade_stats, transformed_file, insights,
                   calculator, extractor, scheduler, database>>

NextTransformMain == TransformMain

SpecTransformMain == InitTransformMain /\ [][NextTransformMain]_vars

(***************************************************************************)
(* C24: runs of the transformation are independent: a run after an         *)
(* earlier run, with no extraction in between, takes the same raw          *)
(* extraction file as its input and leaves the same three output files; no *)
(* file an earlier run wrote is ever the input of a run.                   *)
(***************************************************************************)
FilesNamed(suffix) ==
    SelectSeq(Listing, LAMBDA f : f.stem = output_stem /\ f.suffix = suffix)

RawFile == FilesNamed("")[1]

C24_RunsIndependent ==
    (last = "main" /\ input_file # NoFile) =>
        /\ input_file = Some(RawFile.rows)
        /\ raised = "" =>
              /\ FilesNamed("_transformed") # <<>>
              /\ FilesNamed("_yearly_stats") # <<>>
              /\ FilesNamed("_decade_stats") # <<>>

(***************************************************************************)
(* C25: in every DAG run the tasks run in the order extract_lyrics,        *)
(* transform_lyrics, load_to_postgres, data_quality_check,                 *)
(* generate_summary_report, cleanup_temp_files: a task starts only after   *)
(* the task before it has succeeded, and once a task has failed, after its *)
(* single retry, no later task runs.                                       *)
(***************************************************************************)
Started(t) == try_number[t] > 0

C25_FixedOrder ==
    /\ task_ids = <<"extract_lyrics", "transform_lyrics", "load_to_postgres",
                    "data_quality_check", "generate_summary_report",
                    "cleanup_temp_files">>
    /\ \A t \in Tasks :
          /\ (Started(t) /\ t > 1) => task_state[t - 1] = "success"
          /\ try_number[t] <= 2
          /\ task_state[t] = "failed" =>
                /\ try_number[t] = 2
                /\ \A u \in Tasks : u > t => ~Started(u)
          /\ task_state[t] = "upstream_failed" => ~Started(t)

\* The quality check has failed twice after three successful tasks, and the
\* two tasks after it are not run.
C25_Witness ==
    /\ \A t \in {Extract, Transform, Load} : task_state[t] = "success"
    /\ task_state[QualityCheck] = "failed"
    /\ try_number[QualityCheck] = 2
    /\ task_state[Report] = "upstream_failed"
    /\ task_state[Cleanup] = "upstream_failed"
    /\ try_number[Cleanup] = 0

(***************************************************************************)
(* C26 reads the year of a record and the year its row of the input file   *)
(* had.                                                                    *)
(***************************************************************************)
InputYear(i) == FileRows[Rows[i].idx + 1].year
AfterCleaning == Cleaned /\ raised = ""
Written == Get(transformed_file)

(***************************************************************************)
(* C26 as stated: after clean_data, and in the transformed file that       *)
(* save_transformed_data writes, every record's year is the 4-digit        *)
(* integer calendar year the record had on input.                          *)
(***************************************************************************)
C26_Original ==
    AfterCleaning =>
        /\ \A i \in 1..Len(Rows) :
              /\ Get(data).year_dtype = "int64"
              /\ Rows[i].year = InputYear(i)
        /\ transformed_file # None =>
              \A i \in 1..Len(Written) : Written[i].year = ToString(InputYear(i))

(***************************************************************************)
(* C26 as amended: after clean_data every record's year is the timestamp   *)
(* of the first of January of the year the record had on input, and the    *)
(* transformed file holds it as the date YYYY-01-01; its year component is  *)
(* the input year.                                                         *)
(***************************************************************************)
C26_Amended ==
    AfterCleaning =>
        /\ Get(data).year_dtype = "datetime64"
        /\ \A i \in 1..Len(Rows) : Rows[i].year = <<InputYear(i), 1, 1>>
        /\ (transformed_file # None /\ Categorized) =>
              /\ Len(Written) = Len(Rows)
              /\ \A i \in 1..Len(Written) :
                    Written[i].year = ToString(InputYear(i)) \o "-01-01"

\* Records of 2018 and 2021, cleaned and written.
C26_Witness ==
    /\ AfterCleaning
    /\ Categorized
    /\ transformed_file # None
    /\ Len(Rows) = 2
    /\ Rows[1].year = <<2018, 1, 1>>
    /\ Written[1].year = "2018-01-01"
    /\ Written[2].year = "2021-01-01"

(***************************************************************************)
(* C27: whatever the order of the calls to load_data, clean_data,          *)
(* calculate_additional_metrics and generate_insights on one transformer,  *)
(* statistics are only computed over cleaned data and insights over        *)
(* cleaned and categorized data: each method first runs the steps before   *)
(* it that have not been run yet.                                          *)
(***************************************************************************)
HasInput == input_file # NoFile

C27_PrerequisitesRun ==
    /\ (HasInput /\ last = "clean_data") => Cleaned
    /\ (HasInput /\ last = "calculate_additional_metrics") =>
          (Cleaned /\ Categorized /\ yearly_stats # None)
    /\ (HasInput /\ last = "generate_insights") => (Cleaned /\ Categorized)

(***************************************************************************)
(* C28: for every text, total_words >= 1 implies that there is a non-blank *)
(* line and that the non-blank lines are at most total_words; so            *)
(* avg_sentence_length is 0 only when total_words is 0 and at least 1      *)
(* otherwise.                                                              *)
(***************************************************************************)
C28_LinesAtMostWords ==
    (Calculated /\ metrics # None) =>
        /\ Metrics.total_words >= 1 =>
              /\ NonBlankLines # {}
              /\ Cardinality(NonBlankLines) <= Metrics.total_words
              /\ Metrics.avg_sentence_length >= 100
        /\ Metrics.avg_sentence_length = 0 <=> Metrics.total_words = 0

\* Two one-word lines with a blank line between them have been measured.
C28_Witness ==
    /\ Calculated
    /\ metrics # None
    /\ LyricText = <<"a", NL, NL, "b">>
    /\ Metrics.total_words = 2
    /\ Cardinality(NonBlankLines) = 2
    /\ Metrics.avg_sentence_length = 100

(***************************************************************************)
(* C29: in main of the load, once the loader is constructed the database   *)
(* connection is closed before main ends on every path: success, an early  *)
(* return after a failed connect, create_tables or load step, or an        *)
(* exception; and after a failed step no later step is attempted.          *)
(***************************************************************************)
\* The step that failed in the last run, by what the run logged.
FailedStep ==
    [message \in {"Failed to connect to database", "Error creating tables",
                  "Error loading lyrics complexity data",
                  "Error during data loading", "Error loading yearly stats",
                  "Error loading decade stats"} |->
        IF message = "Failed to connect to database" THEN "connect"
        ELSE IF message = "Error creating tables" THEN "create_tables"
        ELSE IF message = "Error loading yearly stats" THEN "load_yearly_stats"
        ELSE IF message = "Error loading decade stats" THEN "load_decade_stats"
        ELSE "load_lyrics_complexity"]

C29_AlwaysClosed ==
    LoaderConstructed =>
        /\ calls # <<>>
        /\ calls[Len(calls)] = "close"
        /\ \A i \in 1..(Len(calls) - 1) : calls[i] # "close"
        /\ connection # "open"
        /\ calls[1] = "connect"
        /\ log[Load] \in DOMAIN FailedStep =>
              /\ Len(calls) >= 2
              /\ calls[Len(calls) - 1] = FailedStep[log[Load]]
        /\ LoadSucceeded => calls[Len(calls) - 1] = "run_analytics_queries"

\* A load that ended with an exception after its first load step, and whose
\* connection was closed.
C29_Witness ==
    /\ LoaderConstructed
    /\ log[Load] = "Error during data loading"
    /\ calls = <<"connect", "create_tables", "load_lyrics_complexity", "close">>
    /\ connection = "closed"

====
